---- MODULE Spec2Model ----
(***************************************************************************)
(* Live video motion extraction: the adaptive per-pixel background model,  *)
(* the detector, the morphological filter and the tick orchestration of    *)
(* the two implementations held by the repository:                         *)
(*   engine = "gpu": src/index.tsx driving MotionEngine and its shaders    *)
(*                   (src/unnamed/part_000),                               *)
(*   engine = "cpu": the per-pixel loop application (src/unnamed/part_001).*)
(*                                                                         *)
(* Numbers.  Floats are fixed point.  A colour channel, a mean and a       *)
(* luminance are integers in 0..FP, FP standing for full scale (1.0 in a   *)
(* texture, 255 in an ImageData); a variance is in units of 1/FP^2 of full *)
(* scale squared; a score is in 0..One.  detectionThreshold is held in     *)
(* tenths (150 is the slider's 15.0) and adaptationRate in thousandths     *)
(* (50 is 0.05), the steps of the two sliders.                             *)
(***************************************************************************)
EXTENDS Integers, Sequences, FiniteSets, TLC

VARIABLES
  engine,               \* "gpu" | "cpu": which implementation runs
  controls,             \* the controls state (useState)
  frame,                \* the decoded video frame: cell -> <<r, g, b>>
  pWidth, pHeight,      \* gpu: MotionEngine.width/height; cpu: pWidth/pHeight
  isInitialized,        \* MotionEngine.isInitialized
  pingPongIndex,        \* MotionEngine.pingPongIndex
  programs,             \* MotionEngine.programs: <<>> (null) or the three programs
  buffers,              \* MotionEngine.buffers: <<>> (null) or the quad buffer
  textures,             \* MotionEngine.textures and framebuffers: <<>> (null) or the
                        \* mean, variance, mask pairs
  backgroundModelData,  \* cpu: <<>> (null) or <<[mean, variance]>>
  motionData,           \* cpu: the motion frame, cell -> <<r, g, b, a>> (8-bit), <<>> if none
  outputAlpha,          \* gpu: the alpha the output pass wrote, cell -> 0..One, <<>> if none
  outputBuffer,         \* the canvas that shows the result (gpu: the canvas of the
                        \* engine; cpu: the motion canvas): cell -> <<r, g, b, a>>
  previousOutput,       \* history: <<>> or <<the canvas as the last tick found it>>
  ticks,                \* detector passes run so far (bounded)
  lastPass,             \* history: <<>> or <<[frame, mean, variance, score, wroteMean,
                        \* wroteVariance]>>: what the last detector pass since the
                        \* model's creation read, scored and wrote
  passLog,              \* history: the passes of the last tick in the order they ran,
                        \* each with the buffers it read and the buffers it wrote
  sinceReset,           \* history: detector passes since the model was (re)created
  firstFrame,           \* history: the first frame seen since then, <<>> if none yet
  sourceUrl,            \* the sourceUrl state: 0 (null) or the id of an object URL
  isWebcam,             \* the isWebcam state
  dimensions,           \* the dimensions state, <<width, height>>
  video,                \* the <video> element: src, srcObject, readyState, ended, the
                        \* display height its metadata gives, and the initPlayback
                        \* closure held by onloadedmetadata and oncanplay
  getUserMedia,         \* startWebcam is awaiting navigator.mediaDevices.getUserMedia
  pendingEffects,       \* the effects of App scheduled by renders and not yet run
  animationFrame,       \* the callbacks pending in requestAnimationFrame, in the
                        \* order of their requests: the draw closure's [dimensions,
                        \* controls], and whether animationFrameId.current is its id
  modelTag,             \* the buffers of the background model in the application runs:
                        \* <<>> (null) or <<[width, height, mode, source]>>, their size and
                        \* the mode and source of the passes that wrote them
  lastDetect,           \* history: <<>> or <<[model, pass]>>: the tag of the buffers the
                        \* last detector pass read, and the size, mode and source of
                        \* the pass itself
  canvasTag,            \* the canvas that shows the result in the application runs, by
                        \* what was last done to it: "blank" (sized or cleared),
                        \* "faded" (faded, nothing drawn since), "result" (a result drawn)
  observed,             \* history: <<>> or <<[detector, morphology, compositor]>>: the
                        \* controls each pass of the last tick read
  nextSource            \* the id the next object URL or media stream gets

\* the state of the detector and the filter, pixel by pixel
pixVars == <<frame, pingPongIndex, programs, buffers, textures, backgroundModelData,
             motionData,
             outputAlpha, outputBuffer, previousOutput, ticks, lastPass, passLog,
             sinceReset, firstFrame>>

\* the state of the App component and of the <video> element
appVars == <<sourceUrl, isWebcam, dimensions, video, getUserMedia, pendingEffects,
             animationFrame, modelTag, lastDetect, canvasTag, observed, nextSource>>

vars == <<engine, controls, pWidth, pHeight, isInitialized, pixVars, appVars>>

---------------------------------------------------------------------------
(* Bounds of the model *)

SubLevels == 100      \* fixed-point steps per 8-bit level
One == 50           \* the score 1.0
MaxTicks == 3       \* detector passes per behaviour of SpecDetect
MaxSources == 3     \* object URLs and media streams per behaviour of SpecApp
MaxSide == 3        \* SpecMorph: the grids are at most MaxSide wide and high,
MaxCells == 9       \*   of at most MaxCells pixels,
SoftCells == 2      \*   with a grey besides black and white up to SoftCells pixels
MorphTicks == 2     \* SpecMorph: ticks per behaviour

FP == 255 * SubLevels
RateUnits == 1000   \* adaptationRate is held in thousandths

---------------------------------------------------------------------------
(* Arithmetic *)

Abs(n) == IF n < 0 THEN -n ELSE n
Max(a, b) == IF a >= b THEN a ELSE b
Min(a, b) == IF a <= b THEN a ELSE b

\* bisection for the square root: t = <<n, lo, hi>> with lo^2 <= n < hi^2
SqrtIter[t \in Nat \X Nat \X Nat] ==
  IF t[3] - t[2] <= 1 THEN t[2]
  ELSE IF ((t[2] + t[3]) \div 2) * ((t[2] + t[3]) \div 2) <= t[1]
       THEN SqrtIter[<<t[1], (t[2] + t[3]) \div 2, t[3]>>]
       ELSE SqrtIter[<<t[1], t[2], (t[2] + t[3]) \div 2>>]

\* floor of the square root, 0 <= n < 2^31
Sqrt(n) == SqrtIter[<<n, 0, Min(n, 46340) + 1>>]

\* d * a / den rounded to the nearest, computed without leaving 32 bits
MulDiv(d, a, den) ==
  LET m == Abs(d)
      q == (m \div den) * a + (((m % den) * a + den \div 2) \div den)
  IN IF d < 0 THEN -q ELSE q

\* GLSL mix(x, y, a) = x*(1-a) + y*a, a in units of 1/(RateUnits*One)
Mix(x, y, a) == x + MulDiv(y - x, a, RateUnits * One)

\* GLSL smoothstep(e0, e1, x), e0 < e1, result in 0..One
Smoothstep(e0, e1, x) ==
  LET t == Max(0, Min(One, ((x - e0) * One) \div (e1 - e0)))
  IN (t * t * (3 * One - 2 * t)) \div (One * One)

\* a function held as a table of its values, as an array or a texture holds them
Buffer(f) == f @@ <<>>

Cells(w, h) == (0 .. w - 1) \X (0 .. h - 1)

\* an 8-bit level in fixed point
Px(level) == level * SubLevels

SetMin(S) == CHOOSE m \in S : \A n \in S : m <= n
SetMax(S) == CHOOSE m \in S : \A n \in S : m >= n

---------------------------------------------------------------------------
(* The detector, one pixel: backgroundSubtractionFragmentSource (gpu) *)

\* dot(c.rgb, vec3(0.299, 0.587, 0.114))
Luma(c) == (299 * c[1] + 587 * c[2] + 114 * c[3]) \div 1000

\* dot(c.rgb, vec3(0.333))
Dot333(c) == (333 * (c[1] + c[2] + c[3])) \div 1000

SqDist(c, m) ==
  (c[1] - m[1]) * (c[1] - m[1]) + (c[2] - m[2]) * (c[2] - m[2])
    + (c[3] - m[3]) * (c[3] - m[3])

\* u_minVariance = 0.05
u_minVariance == (FP * FP) \div 20

\* dist: length(current.rgb - mean.rgb), or abs(curLum - mean.r)
GpuDist(current, mean, c) ==
  IF c.detectionMode = "color" THEN Sqrt(SqDist(current, mean))
  ELSE Abs(Luma(current) - mean[1])

\* edge = u_threshold * sqrt(var), u_threshold = detectionThreshold / 10.0
GpuEdge(variance, c) ==
  (c.detectionThreshold * Sqrt(Max(variance, u_minVariance))) \div 100

\* a soft mask that starts to rise at dist 0
GpuSoftFromZero(current, mean, variance, c) ==
  Smoothstep(0, (GpuEdge(variance, c) * 14) \div 10, GpuDist(current, mean, c))

\* soft = smoothstep(edge * 0.6, edge * 1.4, dist)
GpuSoft(current, mean, variance, c) ==
  LET edge == GpuEdge(variance, c)
  IN Smoothstep((edge * 6) \div 10, (edge * 14) \div 10, GpuDist(current, mean, c))

\* a detector that adapts at the full rate whatever the score
BgWeightIgnoringScore(soft) == One

\* bgWeight = 1.0 - soft
bgWeight(soft) == One - soft

\* main(): the new mean (rgb), the new variance (the r channel: g and b are
\* carried unchanged and never read) and the mask of one pixel
backgroundSubtraction(current, mean, variance, c) ==
  LET soft == GpuSoft(current, mean, variance, c)
      alpha == c.adaptationRate * bgWeight(soft)
  IN IF c.detectionMode = "color"
     THEN LET lumDiff == Dot333(current) - Dot333(mean)
          IN [mean |-> <<Mix(mean[1], current[1], alpha),
                         Mix(mean[2], current[2], alpha),
                         Mix(mean[3], current[3], alpha)>>,
              variance |-> Mix(variance, lumDiff * lumDiff, alpha),
              mask |-> soft]
     ELSE LET curLum == Luma(current)
              newMeanR == Mix(mean[1], curLum, alpha)
              d == curLum - newMeanR
          IN [mean |-> <<newMeanR, mean[2], mean[3]>>,
              variance |-> Mix(variance, d * d, alpha),
              mask |-> soft]

---------------------------------------------------------------------------
(* The detector, one pixel: the loop of draw (cpu) *)

\* const initialVariance = 100
initialVariance == 100 * SubLevels * SubLevels

\* const minVariance = 25
minVariance == 25 * SubLevels * SubLevels

\* (r + g + b) / 3
Brightness(c) == (c[1] + c[2] + c[3]) \div 3

\* the mean a new model holds for a pixel: rgb, or <<brightness>>
CpuInitialMean(current, c) ==
  IF c.detectionMode = "color" THEN current ELSE <<Brightness(current)>>

\* isForeground: dist > thresholdMultiplier * sqrt(max(variance, minVariance))
CpuIsForeground(current, mean, variance, c) ==
  LET dist == IF c.detectionMode = "color" THEN Sqrt(SqDist(current, mean))
              ELSE Abs(Brightness(current) - mean[1])
  IN dist * 10 > c.detectionThreshold * Sqrt(Max(variance, minVariance))

\* a loop that updates the model at every pixel, foreground or not
CpuUpdatesAlways(isForeground) == TRUE

\* if (!isForeground) { ...update... }
CpuUpdates(isForeground) == ~isForeground

\* one pixel of the detection loop: the pixel's mean and variance after it
CpuDetectPixel(current, mean, variance, c) ==
  LET fg == CpuIsForeground(current, mean, variance, c)
      alpha == c.adaptationRate * One
  IN IF ~CpuUpdates(fg) THEN [mean |-> mean, variance |-> variance, isForeground |-> fg]
     ELSE IF c.detectionMode = "color"
     THEN LET diff == Brightness(current) - Brightness(mean)
          IN [mean |-> <<Mix(mean[1], current[1], alpha),
                         Mix(mean[2], current[2], alpha),
                         Mix(mean[3], current[3], alpha)>>,
              variance |-> Mix(variance, diff * diff, alpha),
              isForeground |-> fg]
     ELSE LET diff == Brightness(current) - mean[1]
          IN [mean |-> <<Mix(mean[1], Brightness(current), alpha)>>,
              variance |-> Mix(variance, diff * diff, alpha),
              isForeground |-> fg]

---------------------------------------------------------------------------
(* Morphology on the gpu: morphologyFragmentSource and the passes of render *)

Clamp(v, lo, hi) == Max(lo, Min(hi, v))

Offsets == (-1 .. 1) \X (-1 .. 1)

\* texture(u_image, v_texCoord + vec2(i, j) * px).r with NEAREST filtering and
\* CLAMP_TO_EDGE wrapping (createTex): a coordinate off the image reads the edge texel
Texel(tex, x, y, w, h) == tex[<<Clamp(x, 0, w - 1), Clamp(y, 0, h - 1)>>]

\* one full-screen pass of the morphology shader: u_type 0 erodes, 1 dilates
morphologyPass(tex, w, h, u_type) ==
  Buffer([cell \in Cells(w, h) |->
     LET ns == {tex[cell]} \cup
               {Texel(tex, cell[1] + o[1], cell[2] + o[2], w, h) : o \in Offsets}
     IN IF u_type = 0 THEN SetMin(ns) ELSE SetMax(ns)])

\* a render whose second morphology pass samples the texture the first one read
GpuMorphologySecondPassReadsInput(mask, idx, nextIdx, morphology, w, h) ==
  IF morphology = "open"
  THEN LET m1 == [mask EXCEPT ![idx] = morphologyPass(mask[nextIdx], w, h, 0)]
       IN [m1 EXCEPT ![nextIdx] = morphologyPass(m1[nextIdx], w, h, 1)]
  ELSE IF morphology = "close"
  THEN LET m1 == [mask EXCEPT ![idx] = morphologyPass(mask[nextIdx], w, h, 1)]
       IN [m1 EXCEPT ![nextIdx] = morphologyPass(m1[nextIdx], w, h, 0)]
  ELSE mask

\* render, step 3: the mask textures after the morphology passes.
\* Input(nextIdx) -> pass 1 -> Output(idx) -> pass 2 -> Output(nextIdx)
GpuMorphology(mask, idx, nextIdx, morphology, w, h) ==
  IF morphology = "open"
  THEN LET m1 == [mask EXCEPT ![idx] = morphologyPass(mask[nextIdx], w, h, 0)]
       IN [m1 EXCEPT ![nextIdx] = morphologyPass(m1[idx], w, h, 1)]
  ELSE IF morphology = "close"
  THEN LET m1 == [mask EXCEPT ![idx] = morphologyPass(mask[nextIdx], w, h, 1)]
       IN [m1 EXCEPT ![nextIdx] = morphologyPass(m1[idx], w, h, 0)]
  ELSE mask

\* outputFragmentSource main: if (u_invert) mask = 1.0 - mask; o_color.a = mask
GpuOutputAlpha(mask, c) ==
  [cell \in DOMAIN mask |-> IF c.invert THEN One - mask[cell] ELSE mask[cell]]

---------------------------------------------------------------------------
(* Morphology on the cpu: getPixel, setPixel, applyMorphology *)

getPixel(data, x, y, width, height) ==
  IF x < 0 \/ x >= width \/ y < 0 \/ y >= height THEN 0 ELSE data[<<x, y>>][1]

\* setPixel: r = g = b = value, alpha 255
setPixel(value) == <<value, value, value, 255>>

erode(input, width, height) ==
  Buffer([cell \in Cells(width, height) |->
     setPixel(SetMin({255} \cup
        {getPixel(input, cell[1] + o[1], cell[2] + o[2], width, height) : o \in Offsets}))])

dilate(input, width, height) ==
  Buffer([cell \in Cells(width, height) |->
     setPixel(SetMax({0} \cup
        {getPixel(input, cell[1] + o[1], cell[2] + o[2], width, height) : o \in Offsets}))])

\* an applyMorphology with the two orders exchanged
ApplyMorphologySwapped(data, width, height, type) ==
  IF type = "open" THEN erode(dilate(data, width, height), width, height)
  ELSE IF type = "close" THEN dilate(erode(data, width, height), width, height)
  ELSE data

\* applyMorphology: the contents of `data` when it returns
applyMorphology(data, width, height, type) ==
  LET src == data
  IN IF type = "open"
     THEN LET buffer == erode(src, width, height) IN dilate(buffer, width, height)
     ELSE IF type = "close"
     THEN LET buffer == dilate(src, width, height) IN erode(buffer, width, height)
     ELSE data

\* draw: the colour written for one pixel of the motion frame
CpuColour(isForeground, c) ==
  LET fg == IF c.invert THEN <<0, 0, 0>> ELSE <<255, 255, 255>>
      bg == IF c.invert THEN <<255, 255, 255>> ELSE <<0, 0, 0>>
      colorBurn == <<3, 218, 198>>
      color == IF c.effect = "colorBurn" /\ ~c.invert THEN colorBurn ELSE fg
  IN IF isForeground THEN <<color[1], color[2], color[3], 255>>
     ELSE <<bg[1], bg[2], bg[3], IF c.effect = "electricTrails" THEN 0 ELSE 255>>

\* draw: the motion frame put on the canvas, from the foreground decisions
CpuMotionFrame(isFg, width, height, c) ==
  LET coloured == Buffer([cell \in Cells(width, height) |-> CpuColour(isFg[cell], c)])
  IN IF c.morphology # "none"
     THEN applyMorphology(coloured, width, height, c.morphology)
     ELSE coloured

---------------------------------------------------------------------------
(* The compositor on the gpu: outputFragmentSource and the final pass of   *)
(* render.  A colour is <<r, g, b>> in 0..FP; the canvas holds <<r, g, b,  *)
(* a>> in 0..FP, not premultiplied (premultipliedAlpha: false).            *)

\* vec3(r, g, b), the components given in thousandths
Rgb(r, g, b) == <<(r * FP) \div 1000, (g * FP) \div 1000, (b * FP) \div 1000>>

\* v * num / den
ScaleV(v, num, den) == <<MulDiv(v[1], num, den), MulDiv(v[2], num, den), MulDiv(v[3], num, den)>>

AddV(a, b) == <<a[1] + b[1], a[2] + b[2], a[3] + b[3]>>

\* mix(a, b, t / den)
MixV(a, b, t, den) ==
  <<a[1] + MulDiv(b[1] - a[1], t, den), a[2] + MulDiv(b[2] - a[2], t, den),
    a[3] + MulDiv(b[3] - a[3], t, den)>>

\* the canvas when it is created: transparent black
BlankCanvas(w, h) == [cell \in Cells(w, h) |-> <<0, 0, 0, 0>>]

\* the eight neighbours edgeGlow samples, in units of px
GlowOffsets ==
  <<<<-1, 0>>, <<1, 0>>, <<0, -1>>, <<0, 1>>, <<-1, -1>>, <<1, -1>>, <<-1, 1>>, <<1, 1>>>>

\* texture(u_mask, v_texCoord + o * radius / u_resolution).r, radius2 = 2 * radius:
\* the texel that holds the sampled point (NEAREST), clamped to the edge
GlowSample(u_mask, cell, o, radius2, w, h) ==
  Texel(u_mask, (2 * cell[1] + 1 + o[1] * radius2) \div 2,
                (2 * cell[2] + 1 + o[2] * radius2) \div 2, w, h)

\* edgeGlow(mask, radius): smoothstep(0.0, 0.5, avg) * (1.0 - mask * 0.5), in 0..One;
\* the neighbours are read from the texture u_mask
edgeGlow(u_mask, mask, cell, radius2, w, h) ==
  LET sum == GlowSample(u_mask, cell, GlowOffsets[1], radius2, w, h)
             + GlowSample(u_mask, cell, GlowOffsets[2], radius2, w, h)
             + GlowSample(u_mask, cell, GlowOffsets[3], radius2, w, h)
             + GlowSample(u_mask, cell, GlowOffsets[4], radius2, w, h)
             + GlowSample(u_mask, cell, GlowOffsets[5], radius2, w, h)
             + GlowSample(u_mask, cell, GlowOffsets[6], radius2, w, h)
             + GlowSample(u_mask, cell, GlowOffsets[7], radius2, w, h)
             + GlowSample(u_mask, cell, GlowOffsets[8], radius2, w, h)
  IN MulDiv(Smoothstep(0, 4 * One, sum), 2 * One - mask, 2 * One)

\* heatPalette(t), t in 0..One
heatPalette(t) ==
  LET a == Rgb(0, 0, 150)
      b == Rgb(0, 300, 1000)
      c == Rgb(0, 1000, 600)
      d == Rgb(1000, 800, 0)
      e == Rgb(1000, 200, 50)
      f == Rgb(1000, 1000, 900)
  IN IF 5 * t < One THEN MixV(a, b, 5 * t, One)
     ELSE IF 5 * t < 2 * One THEN MixV(b, c, 5 * t - One, One)
     ELSE IF 5 * t < 3 * One THEN MixV(c, d, 5 * t - 2 * One, One)
     ELSE IF 5 * t < 4 * One THEN MixV(d, e, 5 * t - 3 * One, One)
     ELSE MixV(e, f, 5 * t - 4 * One, One)

\* length(v_texCoord - 0.5) * 1.2 in thousandths, v_texCoord the centre of the cell
VignetteLength(cell, w, h) ==
  LET dx == (1000 * (2 * cell[1] + 1 - w)) \div (2 * w)
      dy == (1000 * (2 * cell[2] + 1 - h)) \div (2 * h)
  IN (12 * Sqrt(dx * dx + dy * dy)) \div 10

\* main() of the output shader for one pixel: `result`, from the video texel,
\* the mask (inverted if u_invert) and the mask texture.  The effect
\* 'chromatic' (u_effect 4) is set by no specification of this module.
outputResult(u_video, u_mask, mask, cell, c, w, h) ==
  IF c.effect = "classic" THEN ScaleV(u_video[cell], mask, One)
  ELSE IF c.effect = "colorBurn"
  THEN LET neonCyan == Rgb(0, 950, 850)
           neonPurple == Rgb(600, 100, 950)
           glow == edgeGlow(u_mask, mask, cell, 4, w, h)
           edgeColor == MixV(neonCyan, neonPurple, 8 * (2 * cell[2] + 1) + 2 * h, 20 * h)
           base == ScaleV(u_video[cell], mask * 85, One * 100)
           glowLayer == ScaleV(edgeColor, glow * 15, One * 10)
           vig == One - Smoothstep(300, 900, VignetteLength(cell, w, h))
       IN ScaleV(AddV(base, glowLayer), 70 * One + 30 * vig, 100 * One)
  ELSE IF c.effect = "electricTrails"
  THEN LET trailColor == Rgb(100, 600, 1000)
           hotColor == Rgb(1000, 900, 700)
           core == ScaleV(MixV(trailColor, hotColor, mask * mask, One * One), mask, One)
           glow == edgeGlow(u_mask, mask, cell, 6, w, h)
       IN AddV(core, ScaleV(trailColor, glow * 8, One * 10))
  ELSE LET glow == edgeGlow(u_mask, mask, cell, 5, w, h)
           heat == AddV(heatPalette(mask), ScaleV(Rgb(1000, 500, 100), glow * 4, One * 10))
           bgDim == Smoothstep(0, One, 20 * mask)
       IN MixV(Rgb(20, 10, 50), heat, bgDim, One)

\* o_color = vec4(result, mask), as the canvas takes it
outputColor(result, mask) ==
  <<Clamp(result[1], 0, FP), Clamp(result[2], 0, FP), Clamp(result[3], 0, FP),
    MulDiv(FP, mask, One)>>

\* if (u_invert) mask = 1.0 - mask; ...; o_color = vec4(result, mask)
outputFragment(u_video, u_mask, mask, cell, c, w, h) ==
  outputColor(outputResult(u_video, u_mask, mask, cell, c, w, h), mask)

\* main() of the output shader over the image
outputFragments(u_video, u_mask, c, w, h) ==
  Buffer([cell \in Cells(w, h) |->
     outputFragment(u_video, u_mask,
                    IF c.invert THEN One - u_mask[cell] ELSE u_mask[cell], cell, c, w, h)])

\* gl.clearColor(r, g, b, a); gl.clear(gl.COLOR_BUFFER_BIT): every pixel of the
\* canvas is set to the clear colour; blending does not apply to a clear
glClear(canvas, color) == [cell \in DOMAIN canvas |-> color]

\* drawQuad() into the canvas: with BLEND enabled and blendFunc(SRC_ALPHA,
\* ONE_MINUS_SRC_ALPHA), src * src.a + dst * (1 - src.a) on the four channels
glDraw(canvas, fragments, blend) ==
  IF ~blend THEN fragments
  ELSE [cell \in DOMAIN canvas |->
          [i \in 1 .. 4 |-> MulDiv(fragments[cell][i], fragments[cell][4], FP)
                              + MulDiv(canvas[cell][i], FP - fragments[cell][4], FP)]]

\* render, step 4: the canvas after the final display pass
GpuFinalPass(canvas, u_video, u_mask, c, w, h) ==
  LET isPersistence == c.effect \in {"electricTrails", "heatmap"}
      fade == ((100 - c.persistence) * FP) \div 100
      cleared == IF isPersistence
                 THEN glClear(canvas, <<0, 0, 0, fade>>)
                 ELSE glClear(canvas, <<0, 0, 0, FP>>)
  IN Buffer(glDraw(cleared, outputFragments(u_video, u_mask, c, w, h), isPersistence))

---------------------------------------------------------------------------
(* The canvases of draw (cpu).  The motion canvas holds <<r, g, b, a>> in  *)
(* 0..FP, the colour premultiplied by the alpha, as a 2d canvas composes.  *)

\* motionCtx.clearRect over the canvas
clearRect(canvas) == [cell \in DOMAIN canvas |-> <<0, 0, 0, 0>>]

\* motionCtx.fillStyle = rgba(0, 0, 0, 1 - persistence); fillRect over the canvas
fillRect(canvas, persistence) ==
  [cell \in DOMAIN canvas |->
     <<MulDiv(canvas[cell][1], persistence, 100), MulDiv(canvas[cell][2], persistence, 100),
       MulDiv(canvas[cell][3], persistence, 100),
       FP - MulDiv(FP - canvas[cell][4], persistence, 100)>>]

\* motionCtx.drawImage(processingCanvas, ...) after putImageData(motionFrame): the
\* motion frame (8 bits a channel) composed over the canvas, source-over
drawImage(canvas, motionFrame) ==
  [cell \in DOMAIN canvas |->
     LET src == motionFrame[cell]
         a == Px(src[4])
     IN <<MulDiv(Px(src[1]), src[4], 255) + MulDiv(canvas[cell][1], FP - a, FP),
          MulDiv(Px(src[2]), src[4], 255) + MulDiv(canvas[cell][2], FP - a, FP),
          MulDiv(Px(src[3]), src[4], 255) + MulDiv(canvas[cell][3], FP - a, FP),
          a + MulDiv(canvas[cell][4], FP - a, FP)>>]

\* draw: the motion canvas after the fade or the clear that starts a tick
CpuFadeOrClear(canvas, c) ==
  IF c.effect = "electricTrails" THEN fillRect(canvas, c.persistence) ELSE clearRect(canvas)

---------------------------------------------------------------------------
(* MotionEngine (gpu) *)

\* createPrograms: the three shader programs, compiled and linked
createPrograms == [bgSub |-> "program", morph |-> "program", output |-> "program"]

\* createBuffers: the full screen quad
createBuffers == [quad |-> "buffer"]

\* createTexturesAndFBOs: texImage2D(..., null) allocates zero-filled textures
createTexturesAndFBOs(w, h) ==
  [mean     |-> [i \in 0 .. 1 |-> [cell \in Cells(w, h) |-> <<0, 0, 0>>]],
   variance |-> [i \in 0 .. 1 |-> [cell \in Cells(w, h) |-> 0]],
   mask     |-> [i \in 0 .. 1 |-> [cell \in Cells(w, h) |-> 0]]]

\* a background subtraction pass whose framebuffer holds the mean texture it reads
BgSubTargetsMeanInPlace(tex, nextIdx, px) ==
  [mean     |-> [tex.mean EXCEPT ![1 - nextIdx] = [cell \in DOMAIN px |-> px[cell].mean]],
   variance |-> [tex.variance EXCEPT ![nextIdx] =
                   [cell \in DOMAIN px |-> px[cell].variance]],
   mask     |-> [tex.mask EXCEPT ![nextIdx] = [cell \in DOMAIN px |-> px[cell].mask]]]

\* the three render targets of the background subtraction pass, written from
\* the outputs px of the shader
bgSubTargets(tex, nextIdx, px) ==
  [mean     |-> [tex.mean EXCEPT ![nextIdx] = [cell \in DOMAIN px |-> px[cell].mean]],
   variance |-> [tex.variance EXCEPT ![nextIdx] =
                   [cell \in DOMAIN px |-> px[cell].variance]],
   mask     |-> [tex.mask EXCEPT ![nextIdx] = [cell \in DOMAIN px |-> px[cell].mask]]]

\* the outputs of the background subtraction shader, fragment by fragment
bgSubOutputs(tex, idx, u_image, c) ==
  Buffer([cell \in DOMAIN u_image |->
            backgroundSubtraction(u_image[cell], tex.mean[idx][cell],
                                  tex.variance[idx][cell], c)])

\* render, step 2: the textures after the background subtraction pass
GpuBgSubPass(tex, idx, nextIdx, u_image, c) ==
  bgSubTargets(tex, nextIdx, bgSubOutputs(tex, idx, u_image, c))

\* a render that ends without advancing the index
SwapForgotten(nextIdx) == 1 - nextIdx

\* render, step 5: this.pingPongIndex = nextIdx
swap(nextIdx) == nextIdx

\* a pass of a tick: its name, the buffers it reads and the buffers it writes
Pass(name, reads, writes) == [pass |-> name, reads |-> reads, writes |-> writes]

\* a buffer of which there is one
Buf(name) == <<name, 0>>

\* morphology sub-passes of which the second samples the texture it renders to
GpuMorphologyPassesInPlace(idx, nextIdx, morphology) ==
  IF morphology = "open"
  THEN <<Pass("erode", {<<"mask", nextIdx>>}, {<<"mask", idx>>}),
         Pass("dilate", {<<"mask", nextIdx>>}, {<<"mask", nextIdx>>})>>
  ELSE IF morphology = "close"
  THEN <<Pass("dilate", {<<"mask", nextIdx>>}, {<<"mask", idx>>}),
         Pass("erode", {<<"mask", nextIdx>>}, {<<"mask", nextIdx>>})>>
  ELSE <<>>

\* render, step 3: the morphology sub-passes, each with the mask texture bound
\* as u_image and the mask texture of the framebuffer bound
gpuMorphologyPasses(idx, nextIdx, morphology) ==
  IF morphology = "open"
  THEN <<Pass("erode", {<<"mask", nextIdx>>}, {<<"mask", idx>>}),
         Pass("dilate", {<<"mask", idx>>}, {<<"mask", nextIdx>>})>>
  ELSE IF morphology = "close"
  THEN <<Pass("dilate", {<<"mask", nextIdx>>}, {<<"mask", idx>>}),
         Pass("erode", {<<"mask", idx>>}, {<<"mask", nextIdx>>})>>
  ELSE <<>>

\* render: its passes in the order of their drawQuad calls; the final pass
\* clears the canvas and draws on it, blending with it under a persistence effect
renderPasses(idx, nextIdx, c) ==
  <<Pass("detector", {Buf("video"), <<"mean", idx>>, <<"variance", idx>>},
         {<<"mean", nextIdx>>, <<"variance", nextIdx>>, <<"mask", nextIdx>>})>>
  \o gpuMorphologyPasses(idx, nextIdx, c.morphology)
  \o <<Pass("output",
            {Buf("video"), <<"mask", nextIdx>>} \cup
              (IF c.effect \in {"electricTrails", "heatmap"} THEN {Buf("canvas")} ELSE {}),
            {Buf("canvas")})>>

\* MotionEngine.init(width, height)
EngineInit(w, h) ==
  /\ pWidth' = w
  /\ pHeight' = h
  /\ programs' = createPrograms
  /\ buffers' = createBuffers
  /\ textures' = createTexturesAndFBOs(w, h)
  /\ isInitialized' = TRUE
  /\ lastPass' = <<>>
  /\ sinceReset' = 0
  /\ firstFrame' = <<>>
  /\ UNCHANGED <<engine, controls, frame, pingPongIndex, backgroundModelData,
                 motionData, outputAlpha, outputBuffer, passLog,
                 previousOutput, ticks>>

\* MotionEngine.resize(width, height): new, zero-filled textures if the size
\* differs, and with them a model no pass has written
EngineResize(w, h) ==
  IF pWidth # w \/ pHeight # h
  THEN /\ pWidth' = w
       /\ pHeight' = h
       /\ textures' = createTexturesAndFBOs(w, h)
       /\ lastPass' = <<>>
       /\ sinceReset' = 0
       /\ firstFrame' = <<>>
       /\ UNCHANGED <<engine, controls, isInitialized, pingPongIndex, programs, buffers,
                      backgroundModelData, motionData, outputAlpha, passLog, ticks>>
  ELSE UNCHANGED <<engine, controls, pWidth, pHeight, isInitialized, pingPongIndex,
                   programs, buffers, textures, backgroundModelData, motionData,
                   outputAlpha, passLog, ticks, lastPass, sinceReset, firstFrame>>

RenderGuardTextures == textures # <<>>

\* render: if (!this.isInitialized) return
renderGuard == isInitialized

\* MotionEngine.render(video, controls)
EngineRender ==
  IF ~renderGuard
  THEN UNCHANGED <<engine, controls, pWidth, pHeight, isInitialized, pixVars>>
  ELSE LET idx == pingPongIndex
           nextIdx == (idx + 1) % 2
       IN \E px \in {bgSubOutputs(textures, idx, frame, controls)} :
          \E t1 \in {bgSubTargets(textures, nextIdx, px)} :
          \E m2 \in {GpuMorphology(t1.mask, idx, nextIdx, controls.morphology,
                                    pWidth, pHeight)} :
          /\ textures' = [t1 EXCEPT !.mask = m2]
          /\ outputAlpha' = GpuOutputAlpha(m2[nextIdx], controls)
          /\ outputBuffer' = GpuFinalPass(outputBuffer, frame, m2[nextIdx], controls,
                                          pWidth, pHeight)
          /\ previousOutput' = <<outputBuffer>>
          /\ pingPongIndex' = swap(nextIdx)
          /\ passLog' = renderPasses(idx, nextIdx, controls)
          /\ lastPass' = <<[frame |-> frame, mean |-> textures.mean[idx],
                            variance |-> textures.variance[idx],
                            score |-> t1.mask[nextIdx],
                            wroteMean |-> [cell \in DOMAIN px |-> px[cell].mean],
                            wroteVariance |-> [cell \in DOMAIN px |-> px[cell].variance]]>>
          /\ sinceReset' = Min(sinceReset + 1, 2)
          /\ firstFrame' = IF firstFrame = <<>> THEN frame ELSE firstFrame
          /\ ticks' = Min(ticks + 1, MaxTicks)
          /\ UNCHANGED <<engine, controls, frame, pWidth, pHeight, isInitialized,
                         programs, buffers, backgroundModelData, motionData>>

---------------------------------------------------------------------------
(* draw (cpu), from `if (!backgroundModelData.current)` on: the video is ready *)

\* applyMorphology: the copy of data and the two sub-passes, each with its
\* input and its output array
cpuMorphologyPasses(type) ==
  IF type = "open"
  THEN <<Pass("copy", {Buf("data")}, {Buf("src")}),
         Pass("erode", {Buf("src")}, {Buf("buffer")}),
         Pass("dilate", {Buf("buffer")}, {Buf("data")})>>
  ELSE IF type = "close"
  THEN <<Pass("copy", {Buf("data")}, {Buf("src")}),
         Pass("dilate", {Buf("src")}, {Buf("buffer")}),
         Pass("erode", {Buf("buffer")}, {Buf("data")})>>
  ELSE <<>>

\* draw: its steps in the order of the statements, canvas standing for the
\* motion canvas and data for motionFrame.data; creating: the model is null
drawPasses(c, creating) ==
  <<IF c.effect = "electricTrails"
    THEN Pass("fade", {Buf("canvas")}, {Buf("canvas")})
    ELSE Pass("clear", {}, {Buf("canvas")}),
    Pass("capture", {Buf("video")}, {Buf("processingCanvas"), Buf("currentData")})>>
  \o (IF creating
      THEN <<Pass("create", {Buf("currentData")}, {Buf("model")})>>
      ELSE <<Pass("detector", {Buf("currentData"), Buf("model")},
                  {Buf("model"), Buf("data")})>>
           \o cpuMorphologyPasses(c.morphology)
           \o <<Pass("output", {Buf("data"), Buf("canvas")},
                     {Buf("processingCanvas"), Buf("canvas")})>>)

CpuDraw ==
  IF backgroundModelData = <<>>
  THEN /\ backgroundModelData' =
            <<[mean |-> [cell \in Cells(pWidth, pHeight) |->
                           CpuInitialMean(frame[cell], controls)],
               variance |-> [cell \in Cells(pWidth, pHeight) |-> initialVariance]]>>
       /\ outputBuffer' = Buffer(CpuFadeOrClear(outputBuffer, controls))
       /\ previousOutput' = <<outputBuffer>>
       /\ passLog' = drawPasses(controls, TRUE)
       /\ lastPass' = <<>>
       /\ sinceReset' = 0
       /\ firstFrame' = frame
       /\ ticks' = Min(ticks + 1, MaxTicks)
       /\ UNCHANGED <<engine, controls, frame, pWidth, pHeight, isInitialized,
                      pingPongIndex, programs, buffers, textures, motionData, outputAlpha>>
  ELSE LET model == backgroundModelData[1]
       IN \E px \in {Buffer([cell \in Cells(pWidth, pHeight) |->
                               CpuDetectPixel(frame[cell], model.mean[cell],
                                              model.variance[cell], controls)])} :
          \E isFg \in {Buffer([cell \in Cells(pWidth, pHeight) |->
                                 px[cell].isForeground])} :
          /\ backgroundModelData' =
               <<[mean |-> [cell \in Cells(pWidth, pHeight) |-> px[cell].mean],
                  variance |-> [cell \in Cells(pWidth, pHeight) |-> px[cell].variance]]>>
          /\ \E motionFrame \in {CpuMotionFrame(isFg, pWidth, pHeight, controls)} :
               /\ motionData' = motionFrame
               /\ outputBuffer' =
                    Buffer(drawImage(CpuFadeOrClear(outputBuffer, controls), motionFrame))
          /\ previousOutput' = <<outputBuffer>>
          /\ passLog' = drawPasses(controls, FALSE)
          /\ lastPass' = <<[frame |-> frame, mean |-> model.mean,
                            variance |-> model.variance,
                            score |-> [cell \in Cells(pWidth, pHeight) |->
                                         IF isFg[cell] THEN One ELSE 0],
                            wroteMean |-> [cell \in Cells(pWidth, pHeight) |->
                                             px[cell].mean],
                            wroteVariance |-> [cell \in Cells(pWidth, pHeight) |->
                                                 px[cell].variance]]>>
          /\ sinceReset' = Min(sinceReset + 1, 2)
          /\ ticks' = Min(ticks + 1, MaxTicks)
          /\ UNCHANGED <<engine, controls, frame, pWidth, pHeight, isInitialized,
                         pingPongIndex, programs, buffers, textures, outputAlpha, firstFrame>>

\* the model reset effect: backgroundModelData.current = null
CpuResetModel ==
  /\ backgroundModelData' = <<>>
  /\ lastPass' = <<>>
  /\ sinceReset' = 0
  /\ firstFrame' = <<>>
  /\ UNCHANGED <<engine, controls, frame, pWidth, pHeight, isInitialized,
                 pingPongIndex, programs, buffers, textures, motionData, outputAlpha, outputBuffer, passLog,
                 previousOutput, ticks>>

---------------------------------------------------------------------------
(* The App component: state, handlers, effects and the <video> element.    *)
(* A source is named by a number: the id of an object URL or of a media    *)
(* stream, 0 standing for none (null, '').  Here the background model is   *)
(* followed by its tag only, not pixel by pixel.                           *)

displayWidth == 640

\* the display heights displayWidth / aspectRatio of the videos fed: 16:9 and 4:3,
\* the first being also the fallback 640 x 360 of initPlayback, and a strip 80:1
DisplayHeights == {8, 360, 480}

\* the values of the processingResolution slider fed, in hundredths: its least
\* value 0.1 and the default 0.25
ProcessingResolutions == {10, 25}

\* const [dimensions, setDimensions] = useState({ width: 640, height: 360 })
DefaultDimensions == <<displayWidth, 360>>

\* const [controls, setControls] = useState({...}) of either application
DefaultControls ==
  [detectionMode |-> "color", detectionThreshold |-> 150,
   processingResolution |-> IF engine = "gpu" THEN 100 ELSE 25,
   adaptationRate |-> 50, morphology |-> "open", effect |-> "classic",
   invert |-> FALSE, persistence |-> 85]

\* the <video> element before any source is set
NoVideo ==
  [src |-> 0, srcObject |-> 0, readyState |-> 0, ended |-> FALSE,
   displayHeight |-> 360, initPlayback |-> "null"]

\* the media the element plays: the srcObject if there is one, else the src
CurrentSource(v) == IF v.srcObject # 0 THEN v.srcObject ELSE v.src

\* assigning src or srcObject runs the element's load algorithm
Load(v, src, srcObject) ==
  [v EXCEPT !.src = src, !.srcObject = srcObject, !.readyState = 0,
            !.ended = FALSE, !.displayHeight = 360]

\* textures just allocated by createTexturesAndFBOs, written by no pass yet
FreshTextures(w, h) == <<[width |-> w, height |-> h, mode |-> "none", source |-> 0]>>

\* the part of the state that handlers and effects work on; setDimensions is
\* <<>> or <<the value passed to setDimensions>>
Working ==
  [video |-> video, width |-> pWidth, height |-> pHeight,
   isInitialized |-> isInitialized, modelTag |-> modelTag,
   animationFrame |-> animationFrame, setDimensions |-> <<>>]

\* MotionEngine.init(width, height)
init(st, w, h) ==
  [st EXCEPT !.width = w, !.height = h, !.modelTag = FreshTextures(w, h),
             !.isInitialized = TRUE]

\* MotionEngine.resize(width, height)
resize(st, w, h) ==
  IF st.width # w \/ st.height # h
  THEN [st EXCEPT !.width = w, !.height = h, !.modelTag = FreshTextures(w, h)]
  ELSE st

\* the closure initPlayback of the source effect, run as an event handler or
\* by the effect itself; "spent" is hasInitialized = true
initPlayback(st) ==
  IF st.video.initPlayback # "armed" THEN st
  ELSE LET h == st.video.displayHeight
           s1 == [st EXCEPT !.video.initPlayback = "spent",
                            !.setDimensions = <<<<displayWidth, h>>>>]
       IN IF engine = "gpu" THEN init(s1, displayWidth, h) ELSE s1

\* the effects a render schedules when a dependency has changed
EffectsOnSource ==
  IF engine = "gpu" THEN {"source", "loop"} ELSE {"source", "loop", "reset"}

EffectsOnDimensions == IF engine = "gpu" THEN {"resize", "loop"} ELSE {"loop"}

EffectsOnControls(id) ==
  IF engine = "cpu" /\ id \in {"processingResolution", "detectionMode"}
  THEN {"loop", "reset"} ELSE {"loop"}

\* handleControlChange: the value passed to setControls
handleControlChange(c, id, value) ==
  LET newControls == [c EXCEPT ![id] = value]
  IN IF id = "detectionMode"
     THEN [newControls EXCEPT !.detectionThreshold =
                                 IF value = "color" THEN 150 ELSE 25]
     ELSE newControls

\* the video source lifecycle effect: the cleanup of its last run, then its body
sourceEffect(st) ==
  LET cleaned == [st EXCEPT !.video.initPlayback = "null"]
  IN IF sourceUrl = 0 /\ ~isWebcam THEN cleaned
     ELSE LET v1 == IF sourceUrl # 0
                    THEN Load(cleaned.video, sourceUrl, cleaned.video.srcObject)
                    ELSE cleaned.video
              listening == [cleaned EXCEPT !.video = [v1 EXCEPT !.initPlayback = "armed"]]
          IN IF v1.readyState >= 2 THEN initPlayback(listening) ELSE listening

\* gpu, the resize effect: engineRef.current.resize(dimensions.width, dimensions.height)
resizeEffect(st) == resize(st, dimensions[1], dimensions[2])

\* animationFrameId.current = requestAnimationFrame(draw): the callback joins
\* the pending ones and animationFrameId.current holds its id and no other
requestAnimationFrame(pending, d, c) ==
  Append([i \in DOMAIN pending |-> [pending[i] EXCEPT !.current = FALSE]],
         [dimensions |-> d, controls |-> c, current |-> TRUE])

CancelAnimationFrameSkipped(pending) == pending

\* if (animationFrameId.current) cancelAnimationFrame(animationFrameId.current):
\* the id of a callback that has run, or none, cancels nothing
cancelAnimationFrame(pending) == SelectSeq(pending, LAMBDA callback : ~callback.current)

\* the rendering loop effect: the cleanup of its last run and its body cancel
\* the frame animationFrameId.current names, and the body requests one for the
\* draw of this render if there is a source
loopEffect(st) ==
  LET cancelled == cancelAnimationFrame(cancelAnimationFrame(st.animationFrame))
  IN [st EXCEPT !.animationFrame =
        IF sourceUrl # 0 \/ isWebcam
        THEN requestAnimationFrame(cancelled, dimensions, controls)
        ELSE cancelled]

\* cpu, the model reset effect: backgroundModelData.current = null
resetEffect(st) == [st EXCEPT !.modelTag = <<>>]

\* <canvas width=${dimensions.width} height=${dimensions.height}>: the render
\* sets the attributes that changed, and setting one clears the canvas
resizeCanvas(tag, old, new) == IF new # old THEN "blank" ELSE tag

\* the state a handler or a flush of effects leaves; a call of setDimensions
\* passes a new object, so a render follows and schedules effects
Commit(st, pending) ==
  /\ video' = st.video
  /\ pWidth' = st.width
  /\ pHeight' = st.height
  /\ isInitialized' = st.isInitialized
  /\ modelTag' = st.modelTag
  /\ animationFrame' = st.animationFrame
  /\ dimensions' = IF st.setDimensions = <<>> THEN dimensions ELSE st.setDimensions[1]
  /\ canvasTag' = IF st.setDimensions = <<>> THEN canvasTag
                   ELSE resizeCanvas(canvasTag, dimensions, st.setDimensions[1])
  /\ pendingEffects' =
       pending \cup (IF st.setDimensions = <<>> THEN {} ELSE EffectsOnDimensions)

\* Preact runs the effects a render scheduled after the paint that follows it,
\* and at the latest before the component renders again: a handler that sets
\* state is taken to run once they have run (EffectsFlushed), a requested
\* frame may come before.
EffectsFlushed == pendingEffects = {}

\* the effects scheduled by the last render run, in the order of their declaration
FlushEffects ==
  /\ pendingEffects # {}
  /\ LET s1 == IF "source" \in pendingEffects THEN sourceEffect(Working) ELSE Working
         s2 == IF "resize" \in pendingEffects THEN resizeEffect(s1) ELSE s1
         s3 == IF "loop" \in pendingEffects THEN loopEffect(s2) ELSE s2
         s4 == IF "reset" \in pendingEffects THEN resetEffect(s3) ELSE s3
     IN Commit(s4, {})
  /\ UNCHANGED <<engine, controls, pixVars, sourceUrl, isWebcam, getUserMedia,
                 lastDetect, observed, nextSource>>

\* the user moves a control: handleControlChange
ControlChange(id, value) ==
  /\ EffectsFlushed
  /\ value # controls[id]
  /\ controls' = handleControlChange(controls, id, value)
  /\ pendingEffects' = pendingEffects \cup EffectsOnControls(id)
  /\ UNCHANGED <<engine, pWidth, pHeight, isInitialized, pixVars, sourceUrl,
                 isWebcam, dimensions, video, getUserMedia, animationFrame,
                 modelTag, lastDetect, canvasTag, observed, nextSource>>

\* the user picks a file: handleFileUpload
FileUpload ==
  /\ EffectsFlushed
  /\ nextSource <= MaxSources
  /\ isWebcam' = FALSE
  /\ video' = IF video.srcObject # 0 THEN Load(video, video.src, 0) ELSE video
  /\ sourceUrl' = nextSource
  /\ nextSource' = nextSource + 1
  /\ pendingEffects' = pendingEffects \cup EffectsOnSource
  /\ UNCHANGED <<engine, controls, pWidth, pHeight, isInitialized, pixVars,
                 dimensions, getUserMedia, animationFrame, modelTag, lastDetect,
                 canvasTag, observed>>

\* startWebcam up to its await: the tracks of the stream being played stop
StartWebcam ==
  /\ ~getUserMedia
  /\ getUserMedia' = TRUE
  /\ video' = IF video.srcObject # 0 THEN [video EXCEPT !.ended = TRUE] ELSE video
  /\ UNCHANGED <<engine, controls, pWidth, pHeight, isInitialized, pixVars,
                 sourceUrl, isWebcam, dimensions, pendingEffects, animationFrame,
                 modelTag, lastDetect, canvasTag, observed, nextSource>>

\* startWebcam after the await, getUserMedia having given a stream; setIsWebcam
\* and setSourceUrl make a render only if they change the state
WebcamGranted ==
  /\ EffectsFlushed
  /\ getUserMedia
  /\ nextSource <= MaxSources
  /\ getUserMedia' = FALSE
  /\ video' = Load(video, 0, nextSource)
  /\ nextSource' = nextSource + 1
  /\ isWebcam' = TRUE
  /\ sourceUrl' = 0
  /\ pendingEffects' = IF isWebcam /\ sourceUrl = 0 THEN pendingEffects
                       ELSE pendingEffects \cup EffectsOnSource
  /\ UNCHANGED <<engine, controls, pWidth, pHeight, isInitialized, pixVars,
                 dimensions, animationFrame, modelTag, lastDetect, canvasTag,
                 observed>>

\* startWebcam after the await, getUserMedia having thrown
WebcamDenied ==
  /\ getUserMedia
  /\ getUserMedia' = FALSE
  /\ UNCHANGED <<engine, controls, pWidth, pHeight, isInitialized, pixVars,
                 sourceUrl, isWebcam, dimensions, video, pendingEffects,
                 animationFrame, modelTag, lastDetect, canvasTag, observed,
                 nextSource>>

\* the element has the metadata of its media: readyState HAVE_METADATA, the
\* loadedmetadata event
LoadedMetadata ==
  /\ CurrentSource(video) # 0
  /\ ~video.ended
  /\ video.readyState = 0
  /\ video.initPlayback = "armed" => EffectsFlushed
  /\ \E h \in DisplayHeights :
       Commit(initPlayback([Working EXCEPT !.video.readyState = 1,
                                           !.video.displayHeight = h]),
              pendingEffects)
  /\ UNCHANGED <<engine, controls, pixVars, sourceUrl, isWebcam, getUserMedia,
                 lastDetect, observed, nextSource>>

\* the element has frames to show: readyState HAVE_ENOUGH_DATA, the canplay event
CanPlay ==
  /\ video.readyState = 1
  /\ video.initPlayback = "armed" => EffectsFlushed
  /\ Commit(initPlayback([Working EXCEPT !.video.readyState = 4]), pendingEffects)
  /\ UNCHANGED <<engine, controls, pixVars, sourceUrl, isWebcam, getUserMedia,
                 lastDetect, observed, nextSource>>

\* Math.floor(dimensions.width * controls.processingResolution), and the height
ProcessingSize(d, c) ==
  <<(d[1] * c.processingResolution) \div 100, (d[2] * c.processingResolution) \div 100>>

\* the controls each pass of a tick reads: the argument controls of render
\* (gpu), the controls of the draw closure (cpu)
PassControlsCompositorLive(closure) ==
  [detector |-> closure.controls, morphology |-> closure.controls,
   compositor |-> controls]

PassControls(closure) ==
  [detector |-> closure.controls, morphology |-> closure.controls,
   compositor |-> closure.controls]

\* cpu: the fade of electricTrails or clearRect on the motion canvas
fadeOrClearCanvas(c) == IF c.effect = "electricTrails" THEN "faded" ELSE "blank"

\* the first pending frame comes: draw, the closure of the render that
\* requested it, which requests itself again unless it throws
draw ==
  /\ animationFrame # <<>>
  /\ LET closure == animationFrame[1]
         p == ProcessingSize(closure.dimensions, closure.controls)
         pass == [width |-> IF engine = "gpu" THEN pWidth ELSE p[1],
                  height |-> IF engine = "gpu" THEN pHeight ELSE p[2],
                  mode |-> closure.controls.detectionMode,
                  source |-> CurrentSource(video)]
         again == requestAnimationFrame(Tail(animationFrame), closure.dimensions,
                                        closure.controls)
         skip == /\ animationFrame' = again
                 /\ UNCHANGED <<pWidth, pHeight, modelTag, lastDetect, canvasTag,
                                observed, pingPongIndex>>
     IN IF video.ended \/ video.readyState < 2
        THEN skip
        ELSE IF engine = "gpu"
        THEN IF ~isInitialized
             THEN skip
             ELSE \* engine.render(video, controls)
                  /\ lastDetect' = <<[model |-> modelTag[1], pass |-> pass]>>
                  /\ modelTag' = <<[modelTag[1] EXCEPT !.mode = pass.mode,
                                                       !.source = pass.source]>>
                  /\ pingPongIndex' = (pingPongIndex + 1) % 2
                  /\ canvasTag' = "result"
                  /\ observed' = <<PassControls(closure)>>
                  /\ animationFrame' = again
                  /\ UNCHANGED <<pWidth, pHeight>>
        ELSE /\ pWidth' = p[1]
             /\ pHeight' = p[2]
             /\ UNCHANGED pingPongIndex
             /\ IF p[1] = 0 \/ p[2] = 0
                THEN \* getImageData(0, 0, pWidth, pHeight) throws IndexSizeError
                     /\ canvasTag' = fadeOrClearCanvas(closure.controls)
                     /\ animationFrame' = Tail(animationFrame)
                     /\ UNCHANGED <<modelTag, lastDetect, observed>>
                ELSE IF modelTag = <<>>
                THEN /\ canvasTag' = fadeOrClearCanvas(closure.controls)
                     /\ modelTag' = <<pass>>
                     /\ animationFrame' = again
                     /\ UNCHANGED <<lastDetect, observed>>
                ELSE /\ lastDetect' = <<[model |-> modelTag[1], pass |-> pass]>>
                     /\ canvasTag' = "result"
                     /\ observed' = <<PassControls(closure)>>
                     /\ animationFrame' = again
                     /\ UNCHANGED modelTag
  /\ UNCHANGED <<engine, controls, isInitialized, frame, programs, buffers, textures,
                 backgroundModelData, motionData, outputAlpha, outputBuffer, passLog,
                 previousOutput, ticks, lastPass, sinceReset, firstFrame, sourceUrl,
                 isWebcam, dimensions, video, getUserMedia, pendingEffects, nextSource>>

---------------------------------------------------------------------------
(* SpecApp: either application from its mount on, under every order of the *)
(* user's actions, the media events, the effects and the requested frames  *)

\* the App component mounted, its first effects run, no source chosen yet
Mounted ==
  /\ sourceUrl = 0
  /\ isWebcam = FALSE
  /\ dimensions = DefaultDimensions
  /\ video = NoVideo
  /\ getUserMedia = FALSE
  /\ pendingEffects = {}
  /\ animationFrame = <<>>
  /\ lastDetect = <<>>
  /\ canvasTag = "blank"
  /\ observed = <<>>
  /\ nextSource = 1

\* the pixels are not followed in SpecApp, the ping-pong index is
NoPixels ==
  /\ frame = <<>>
  /\ pingPongIndex = 0
  /\ programs = <<>>
  /\ buffers = <<>>
  /\ textures = <<>>
  /\ backgroundModelData = <<>>
  /\ motionData = <<>>
  /\ outputAlpha = <<>>
  /\ outputBuffer = <<>>
  /\ previousOutput = <<>>
  /\ ticks = 0
  /\ passLog = <<>>
  /\ lastPass = <<>>
  /\ sinceReset = 0
  /\ firstFrame = <<>>

\* gpu: the engine is constructed and the resize effect has sized it; cpu: no
\* model yet
InitApp ==
  /\ engine \in {"gpu", "cpu"}
  /\ controls = DefaultControls
  /\ Mounted
  /\ NoPixels
  /\ isInitialized = FALSE
  /\ pWidth = IF engine = "gpu" THEN DefaultDimensions[1] ELSE 0
  /\ pHeight = IF engine = "gpu" THEN DefaultDimensions[2] ELSE 0
  /\ modelTag = IF engine = "gpu"
                THEN FreshTextures(DefaultDimensions[1], DefaultDimensions[2])
                ELSE <<>>

SetDetectionMode == \E value \in {"color", "luminance"} : ControlChange("detectionMode", value)

SetProcessingResolution ==
  /\ engine = "cpu"
  /\ \E value \in ProcessingResolutions : ControlChange("processingResolution", value)

NextApp ==
  \/ SetDetectionMode
  \/ SetProcessingResolution
  \/ FileUpload
  \/ StartWebcam
  \/ WebcamGranted
  \/ WebcamDenied
  \/ LoadedMetadata
  \/ CanPlay
  \/ FlushEffects
  \/ draw

SpecApp == InitApp /\ [][NextApp]_vars

\* C4: no detector pass reads mean and variance written under the other
\* detectionMode: after a change of detectionMode the model is reset before
\* the first pass in the new mode
C4_ModeChangeResets ==
  lastDetect # <<>> => lastDetect[1].model.mode \in {lastDetect[1].pass.mode, "none"}

\* C5: no detector pass applies a model built from another source to a frame
\* of the source being played: after a change of source, a second start of the
\* webcam included, the model is reset before the first pass on the new source
C5_SourceChangeResets ==
  lastDetect # <<>> => lastDetect[1].model.source \in {lastDetect[1].pass.source, 0}

\* C6: the buffers every detector pass reads have the size of the processing
\* resolution of that pass
C6_ModelResolution ==
  lastDetect # <<>> =>
    /\ lastDetect[1].model.width = lastDetect[1].pass.width
    /\ lastDetect[1].model.height = lastDetect[1].pass.height

\* the processing resolution of the tick that the requested frame would run
TickResolution ==
  IF engine = "gpu" THEN <<pWidth, pHeight>>
  ELSE ProcessingSize(animationFrame[1].dimensions, animationFrame[1].controls)

\* a tick with no valid frame or a zero resolution
InvalidFrame ==
  \/ video.ended
  \/ video.readyState < 2
  \/ engine = "gpu" /\ ~isInitialized
  \/ TickResolution[1] = 0
  \/ TickResolution[2] = 0

\* C15: a tick that has a zero resolution or no valid frame (video ended or
\* readyState < 2, or the engine not initialised) is skipped and mutates no
\* buffer: the background model, the ping-pong index and the output canvas are
\* after it as they were before
C15_InvalidFrameSkipsTick ==
  [][(draw /\ InvalidFrame) =>
       /\ modelTag' = modelTag
       /\ pingPongIndex' = pingPongIndex
       /\ canvasTag' = canvasTag]_vars

\* a zero-resolution tick is about to run on a canvas that shows a result
C15_Witness ==
  /\ animationFrame # <<>>
  /\ video.readyState >= 2 /\ ~video.ended
  /\ 0 \in {TickResolution[1], TickResolution[2]}
  /\ canvasTag = "result"

\* a model exists whose size is not the processing resolution of the tick
\* that the requested frame would run
ModelMismatch ==
  /\ animationFrame # <<>>
  /\ modelTag # <<>>
  /\ <<modelTag[1].width, modelTag[1].height>> # TickResolution

\* C16: a tick that starts with a model whose dimensions differ from the
\* processing resolution of its frame resets the model to that resolution and
\* runs no detector pass over the mismatched buffers
C16_MismatchForcesReset ==
  [][(draw /\ ~InvalidFrame /\ ModelMismatch) =>
       /\ modelTag' # <<>>
       /\ <<modelTag'[1].width, modelTag'[1].height>> = TickResolution
       /\ lastDetect' = lastDetect]_vars

\* a tick with a valid frame is about to run on a model of another size
C16_Witness == ModelMismatch /\ ~InvalidFrame

\* C17: every tick given a ready frame on a running pipeline ends with its
\* result drawn on the output canvas, the first tick after a reset of the model
\* included
C17_ValidTickDrawsResult ==
  [][(draw /\ ~InvalidFrame) => canvasTag' = "result"]_vars

\* a tick with a ready frame is about to run just after a reset of the model,
\* the canvas showing the result of a tick before the reset
C17_Witness ==
  /\ animationFrame # <<>>
  /\ ~InvalidFrame
  /\ lastDetect # <<>>
  /\ canvasTag = "result"
  /\ \/ modelTag = <<>>
     \/ modelTag # <<>> /\ modelTag[1].mode = "none"

\* C18: whatever the interleaving of control changes with ticks, the detector,
\* the morphology and the compositor of one tick read the same value of every
\* control: no change of a control takes effect between two passes of a tick
C18_ConfigurationSnapshot ==
  observed # <<>> =>
    /\ observed[1].detector = observed[1].morphology
    /\ observed[1].morphology = observed[1].compositor

\* a tick has run, a control has been changed, and the frame requested is
\* still to run the closure that holds the controls as they were
C18_Witness ==
  /\ observed # <<>>
  /\ animationFrame # <<>>
  /\ animationFrame[1].controls # controls
  /\ observed[1].compositor # controls
  /\ ~InvalidFrame

---------------------------------------------------------------------------
(* SpecDetect: the detector on one pixel, over every short run of frames *)

DetectPalette ==
  {<<Px(0), Px(0), Px(0)>>, <<Px(255), Px(255), Px(255)>>,
   <<Px(60), Px(60), Px(60)>>, <<Px(200), Px(30), Px(30)>>}

Frames(w, h, palette) == [Cells(w, h) -> palette]

\* the defaults of useState, with the detector's three controls varied
DetectControls ==
  [detectionMode : {"color", "luminance"}, detectionThreshold : {25, 150},
   processingResolution : {100}, adaptationRate : {50, 500}, morphology : {"open"},
   effect : {"classic"}, invert : {FALSE}, persistence : {85}]

InitDetect ==
  /\ engine \in {"gpu", "cpu"}
  /\ controls \in DetectControls
  /\ pWidth = 1
  /\ pHeight = 1
  /\ frame \in Frames(1, 1, DetectPalette)
  /\ isInitialized = FALSE
  /\ pingPongIndex = 0
  /\ programs = <<>>
  /\ buffers = <<>>
  /\ textures = <<>>
  /\ backgroundModelData = <<>>
  /\ motionData = <<>>
  /\ outputAlpha = <<>>
  /\ outputBuffer = BlankCanvas(pWidth, pHeight)
  /\ previousOutput = <<>>
  /\ ticks = 0
  /\ passLog = <<>>
  /\ lastPass = <<>>
  /\ sinceReset = 0
  /\ firstFrame = <<>>
  /\ Mounted
  /\ modelTag = <<>>

\* the video advances to another frame
NewFrameD ==
  /\ frame' \in Frames(pWidth, pHeight, DetectPalette) \ {frame}
  /\ UNCHANGED <<engine, controls, pWidth, pHeight, isInitialized, pingPongIndex,
                 programs, buffers, textures, backgroundModelData, motionData, outputAlpha, outputBuffer, passLog,
                 previousOutput, ticks,
                 lastPass, sinceReset, firstFrame, appVars>>

GpuInitD == engine = "gpu" /\ EngineInit(pWidth, pHeight) /\ UNCHANGED appVars

GpuRenderD == engine = "gpu" /\ ticks < MaxTicks /\ EngineRender /\ UNCHANGED appVars

CpuDrawD == engine = "cpu" /\ ticks < MaxTicks /\ CpuDraw /\ UNCHANGED appVars

CpuResetD ==
  engine = "cpu" /\ backgroundModelData # <<>> /\ CpuResetModel /\ UNCHANGED appVars

NextDetect == NewFrameD \/ GpuInitD \/ GpuRenderD \/ CpuDrawD \/ CpuResetD

SpecDetect == InitDetect /\ [][NextDetect]_vars

\* the model the next detector pass will read
CurrentMean ==
  IF engine = "gpu" THEN textures.mean[pingPongIndex] ELSE backgroundModelData[1].mean

CurrentVariance ==
  IF engine = "gpu" THEN textures.variance[pingPongIndex]
  ELSE backgroundModelData[1].variance

\* C1: a pixel the detector pass scored 1 (gpu: dist >= 1.4 * edge, cpu:
\* isForeground) has, after the pass, the mean and variance it had before
C1_SelectiveAdaptation ==
  lastPass # <<>> =>
    \A cell \in DOMAIN lastPass[1].score :
      lastPass[1].score[cell] = One =>
        /\ CurrentMean[cell] = lastPass[1].mean[cell]
        /\ CurrentVariance[cell] = lastPass[1].variance[cell]

\* a pass scored a pixel 1 whose frame value differs from the mean it read, in
\* a model that had adapted before
C1_Witness ==
  /\ lastPass # <<>>
  /\ sinceReset = 2
  /\ \E cell \in DOMAIN lastPass[1].score :
       /\ lastPass[1].score[cell] = One
       /\ lastPass[1].mean[cell] # <<0, 0, 0>>
       /\ lastPass[1].variance[cell] # 0

---------------------------------------------------------------------------
(* SpecStable: a new model, then the same frame on every tick, for ever.   *)
(* The render loop reschedules itself on every tick, hence the fairness.   *)

GpuInitS ==
  engine = "gpu" /\ ~isInitialized /\ EngineInit(pWidth, pHeight) /\ UNCHANGED appVars

GpuRenderS == engine = "gpu" /\ isInitialized /\ EngineRender /\ UNCHANGED appVars

CpuDrawS == engine = "cpu" /\ CpuDraw /\ UNCHANGED appVars

NextStable == GpuInitS \/ GpuRenderS \/ CpuDrawS

SpecStable == InitDetect /\ [][NextStable]_vars /\ WF_vars(NextStable)

MaskAllZero ==
  /\ lastPass # <<>>
  /\ \A cell \in DOMAIN lastPass[1].score : lastPass[1].score[cell] = 0

\* C2: from a new model, with the same frame on every tick and
\* adaptationRate > 0, the mask becomes 0 at every pixel and stays 0
C2_StableInputConverges == <>[]MaskAllZero

\* C3: the first detector pass after the model was created or reset read, at
\* every pixel, a mean equal to the pixel's value in the first frame seen and
\* the initial variance, and scored no pixel as motion if the frame is unchanged
C3_ModelSeededFromFirstFrame ==
  (lastPass # <<>> /\ sinceReset = 1) =>
    \A cell \in DOMAIN firstFrame :
      /\ IF controls.detectionMode = "color"
         THEN lastPass[1].mean[cell] = firstFrame[cell]
         ELSE lastPass[1].mean[cell][1] =
                (IF engine = "gpu" THEN Luma(firstFrame[cell])
                 ELSE Brightness(firstFrame[cell]))
      /\ lastPass[1].variance[cell] = initialVariance
      /\ lastPass[1].frame = firstFrame => lastPass[1].score[cell] = 0

---------------------------------------------------------------------------
(* SpecMorph: whole ticks on small grids.  The model is made on a black    *)
(* background, the frame then shows any pattern of white (and grey) pixels,*)
(* which gives the detector mask of the tick; morphology, invert and       *)
(* effect take every value.                                                *)

MorphGrids == {g \in (1 .. MaxSide) \X (1 .. MaxSide) : g[1] * g[2] <= MaxCells}

Background(w, h) == [cell \in Cells(w, h) |-> <<Px(0), Px(0), Px(0)>>]

MorphPalette(w, h) ==
  {<<Px(0), Px(0), Px(0)>>, <<Px(255), Px(255), Px(255)>>} \cup
  (IF w * h <= SoftCells THEN {<<Px(60), Px(60), Px(60)>>} ELSE {})

MorphControls ==
  [detectionMode : {"color"}, detectionThreshold : {150}, processingResolution : {100},
   adaptationRate : {50}, morphology : {"none", "open", "close"},
   effect : {"classic", "colorBurn", "electricTrails"}, invert : BOOLEAN,
   persistence : {85}]

InitMorph ==
  /\ engine \in {"gpu", "cpu"}
  /\ controls \in MorphControls
  /\ \E g \in MorphGrids : pWidth = g[1] /\ pHeight = g[2]
  /\ frame = Background(pWidth, pHeight)
  /\ isInitialized = FALSE
  /\ pingPongIndex = 0
  /\ programs = <<>>
  /\ buffers = <<>>
  /\ textures = <<>>
  /\ backgroundModelData = <<>>
  /\ motionData = <<>>
  /\ outputAlpha = <<>>
  /\ outputBuffer = BlankCanvas(pWidth, pHeight)
  /\ previousOutput = <<>>
  /\ ticks = 0
  /\ passLog = <<>>
  /\ lastPass = <<>>
  /\ sinceReset = 0
  /\ firstFrame = <<>>
  /\ Mounted
  /\ modelTag = <<>>

\* something enters the scene
NewFrameM ==
  /\ frame = Background(pWidth, pHeight)
  /\ lastPass = <<>>
  /\ frame' \in Frames(pWidth, pHeight, MorphPalette(pWidth, pHeight)) \ {frame}
  /\ UNCHANGED <<engine, controls, pWidth, pHeight, isInitialized, pingPongIndex,
                 programs, buffers, textures, backgroundModelData, motionData, outputAlpha, outputBuffer, passLog,
                 previousOutput, ticks,
                 lastPass, sinceReset, firstFrame, appVars>>

GpuInitM ==
  engine = "gpu" /\ ~isInitialized /\ EngineInit(pWidth, pHeight) /\ UNCHANGED appVars

GpuRenderM ==
  engine = "gpu" /\ isInitialized /\ ticks < MorphTicks /\ EngineRender /\ UNCHANGED appVars

CpuDrawM == engine = "cpu" /\ ticks < MorphTicks /\ CpuDraw /\ UNCHANGED appVars

NextMorph == NewFrameM \/ GpuInitM \/ GpuRenderM \/ CpuDrawM

SpecMorph == InitMorph /\ [][NextMorph]_vars

\* the invert control set the other way
InvertFlipped == [controls EXCEPT !.invert = ~controls.invert]

\* cpu: the detector's decisions of the last pass
LastIsForeground == [cell \in DOMAIN lastPass[1].score |-> lastPass[1].score[cell] = One]

\* cpu: a pixel of the motion frame is lit (not black), as a mask value
Lit(pixel) == IF <<pixel[1], pixel[2], pixel[3]>> = <<0, 0, 0>> THEN 0 ELSE One

\* C7: the output mask of a tick made with invert = true is 1 minus the output
\* mask of the same tick made with invert = false (gpu: the alpha the output
\* pass writes; cpu: the lit pixels of the motion frame)
C7_InvertSymmetry ==
  lastPass # <<>> =>
    \A cell \in DOMAIN lastPass[1].score :
      IF engine = "gpu"
      THEN outputAlpha[cell] =
             One - GpuOutputAlpha(textures.mask[pingPongIndex], InvertFlipped)[cell]
      ELSE Lit(motionData[cell]) =
             One - Lit(CpuMotionFrame(LastIsForeground, pWidth, pHeight,
                                      InvertFlipped)[cell])

\* the detector mask of the last pass, as the morphology step of the engine
\* gets it: gpu, the mask texture the background subtraction wrote; cpu, the
\* motion frame as the detection loop coloured it
DetectorMask ==
  IF engine = "gpu" THEN lastPass[1].score
  ELSE Buffer([cell \in DOMAIN lastPass[1].score |->
                 CpuColour(LastIsForeground[cell], controls)])

\* the mask the compositor of the last tick consumed: gpu, the mask texture the
\* output pass sampled; cpu, the motion frame put on the canvas
ConsumedMask == IF engine = "gpu" THEN textures.mask[pingPongIndex] ELSE motionData

Erode(m) ==
  IF engine = "gpu" THEN morphologyPass(m, pWidth, pHeight, 0)
  ELSE erode(m, pWidth, pHeight)

Dilate(m) ==
  IF engine = "gpu" THEN morphologyPass(m, pWidth, pHeight, 1)
  ELSE dilate(m, pWidth, pHeight)

\* C8: the mask the compositor consumes is dilate(erode(m)) of the detector
\* mask m of the tick when morphology is 'open', erode(dilate(m)) when it is
\* 'close', and m itself when it is 'none'
C8_MorphologyModes ==
  lastPass # <<>> =>
    \A m \in {DetectorMask} :
      ConsumedMask = (IF controls.morphology = "open" THEN Dilate(Erode(m))
                      ELSE IF controls.morphology = "close" THEN Erode(Dilate(m))
                      ELSE m)

\* a second render, which writes the mask textures the other way round, has
\* closed a detector mask that closing changes
C8_Witness ==
  /\ engine = "gpu"
  /\ ticks = 2
  /\ lastPass # <<>>
  /\ controls.morphology = "close"
  /\ ConsumedMask # DetectorMask
  /\ \E cell \in DOMAIN ConsumedMask : ConsumedMask[cell] = 0

\* a mask value as the engine holds it: gpu 0..One, cpu the red channel 0..255
MaskValue(pixel) == IF engine = "gpu" THEN pixel ELSE pixel[1]

FullValue == IF engine = "gpu" THEN One ELSE 255

\* C9: erode writes at each pixel the minimum, dilate the maximum, of the mask
\* over the 3x3 neighbourhood of the pixel, a neighbour outside the image
\* counting as 0
C9_ErodeDilateZeroOutside ==
  lastPass # <<>> =>
    \A m \in {DetectorMask} : \A eroded \in {Erode(m)} : \A dilated \in {Dilate(m)} :
      \A cell \in DOMAIN m :
        LET around == {IF <<cell[1] + o[1], cell[2] + o[2]>> \in DOMAIN m
                       THEN MaskValue(m[<<cell[1] + o[1], cell[2] + o[2]>>])
                       ELSE 0 : o \in Offsets}
        IN /\ MaskValue(eroded[cell]) = SetMin(around)
           /\ MaskValue(dilated[cell]) = SetMax(around)

\* C10: every pixel that is foreground in open(mask) of a binary mask is
\* foreground in the mask
C10_OpenAntiExtensive ==
  (lastPass # <<>> /\ controls.morphology = "open") =>
    \A m \in {DetectorMask} :
      (\A cell \in DOMAIN m : MaskValue(m[cell]) \in {0, FullValue}) =>
        \A cell \in DOMAIN m :
          MaskValue(ConsumedMask[cell]) = FullValue => MaskValue(m[cell]) = FullValue

\* an opening has kept some foreground pixels of a binary mask and removed others
C10_Witness ==
  /\ lastPass # <<>>
  /\ controls.morphology = "open"
  /\ \A cell \in DOMAIN DetectorMask : MaskValue(DetectorMask[cell]) \in {0, FullValue}
  /\ \E cell \in DOMAIN DetectorMask : MaskValue(ConsumedMask[cell]) = FullValue
  /\ \E cell \in DOMAIN DetectorMask :
       MaskValue(DetectorMask[cell]) = FullValue /\ MaskValue(ConsumedMask[cell]) = 0

\* C11: every pixel that is foreground in a binary mask, border pixels
\* included, is foreground in close(mask) (invert off, so that on the cpu the
\* white pixels of the motion frame are the detector's foreground)
C11_CloseExtensive ==
  (lastPass # <<>> /\ controls.morphology = "close" /\ ~controls.invert) =>
    \A m \in {DetectorMask} :
      (\A cell \in DOMAIN m : MaskValue(m[cell]) \in {0, FullValue}) =>
        \A cell \in DOMAIN m :
          MaskValue(m[cell]) = FullValue => MaskValue(ConsumedMask[cell]) = FullValue

\* a closing has filled a background pixel of a binary mask that has foreground
C11_Witness ==
  /\ lastPass # <<>>
  /\ controls.morphology = "close"
  /\ \A cell \in DOMAIN DetectorMask : MaskValue(DetectorMask[cell]) \in {0, FullValue}
  /\ \E cell \in DOMAIN DetectorMask :
       MaskValue(DetectorMask[cell]) = 0 /\ MaskValue(ConsumedMask[cell]) = FullValue

---------------------------------------------------------------------------
(* SpecStep: the end-to-end scenario.  Luminance mode with the threshold   *)
(* 2.5 that handleControlChange gives it and the default rate 0.05, on a   *)
(* grid of two grey pixels.  The model holds the frame being shown as its  *)
(* mean and the variance 100: on the cpu the first draw creates exactly    *)
(* this model; on the gpu it is the state of a still scene on which the    *)
(* mean has converged, taken when the decaying variance passes 100.  Then  *)
(* some pixels brighten by 200 levels and ticks follow.                    *)

StepLevels == {0, 20, 40, 55}

StepGreys == {<<Px(l), Px(l), Px(l)>> : l \in StepLevels}

StepControls ==
  [detectionMode |-> "luminance", detectionThreshold |-> 25,
   processingResolution |-> 100, adaptationRate |-> 50, morphology |-> "open",
   effect |-> "classic", invert |-> FALSE, persistence |-> 85]

\* the textures of a still scene: the mean is the luminance of the frame
SettledTextures(still) ==
  [createTexturesAndFBOs(pWidth, pHeight) EXCEPT
     !.mean[0] = [cell \in DOMAIN still |-> <<Luma(still[cell]), 0, 0>>],
     !.variance[0] = [cell \in DOMAIN still |-> initialVariance]]

InitStep ==
  /\ engine \in {"gpu", "cpu"}
  /\ controls = StepControls
  /\ pWidth = 2
  /\ pHeight = 1
  /\ frame \in Frames(pWidth, pHeight, StepGreys)
  /\ isInitialized = (engine = "gpu")
  /\ pingPongIndex = 0
  /\ programs = IF engine = "gpu" THEN createPrograms ELSE <<>>
  /\ buffers = IF engine = "gpu" THEN createBuffers ELSE <<>>
  /\ textures = IF engine = "gpu" THEN SettledTextures(frame) ELSE <<>>
  /\ backgroundModelData = <<>>
  /\ motionData = <<>>
  /\ outputAlpha = <<>>
  /\ outputBuffer = BlankCanvas(pWidth, pHeight)
  /\ previousOutput = <<>>
  /\ ticks = 0
  /\ passLog = <<>>
  /\ lastPass = <<>>
  /\ sinceReset = 0
  /\ firstFrame = <<>>
  /\ Mounted
  /\ modelTag = <<>>

\* some pixels of the scene brighten by 200 levels, within the 8 bits of a
\* channel, the others stay
Brighten ==
  /\ lastPass = <<>>
  /\ engine = "cpu" => backgroundModelData # <<>>
  /\ \E lit \in SUBSET Cells(pWidth, pHeight) :
       /\ lit # {}
       /\ \A cell \in lit : frame[cell][1] + Px(200) <= FP
       /\ frame' = [cell \in Cells(pWidth, pHeight) |->
                      IF cell \in lit
                      THEN <<frame[cell][1] + Px(200), frame[cell][2] + Px(200),
                             frame[cell][3] + Px(200)>>
                      ELSE frame[cell]]
  /\ UNCHANGED <<engine, controls, pWidth, pHeight, isInitialized, pingPongIndex,
                 programs, buffers, textures, backgroundModelData, motionData, outputAlpha, outputBuffer, passLog,
                 previousOutput, ticks,
                 lastPass, sinceReset, firstFrame, appVars>>

NextStep == Brighten \/ GpuRenderD \/ CpuDrawD

SpecStep == InitStep /\ [][NextStep]_vars

\* the luminance the detector of the engine takes of a pixel
Luminance(c) == IF engine = "gpu" THEN Luma(c) ELSE Brightness(c)

\* the last pass read the variance 100 everywhere and a frame that is, at each
\* pixel, the mean it read or 200 levels brighter
StepScenario ==
  /\ lastPass # <<>>
  /\ \A cell \in DOMAIN lastPass[1].frame :
       /\ lastPass[1].variance[cell] = initialVariance
       /\ Luminance(lastPass[1].frame[cell]) - lastPass[1].mean[cell][1] \in {0, Px(200)}

\* C12: in luminance mode, threshold 2.5, rate 0.05, model mean equal to the
\* previous frame and variance 100 everywhere: the tick scores 1 every pixel
\* that is 200 levels brighter than in the previous frame and leaves its mean
\* and variance as they were; it scores 0 every unchanged pixel and leaves its
\* mean as it was
C12_DetectionStep ==
  StepScenario =>
    \A cell \in DOMAIN lastPass[1].frame :
      IF Luminance(lastPass[1].frame[cell]) - lastPass[1].mean[cell][1] = Px(200)
      THEN /\ lastPass[1].score[cell] = One
           /\ CurrentMean[cell] = lastPass[1].mean[cell]
           /\ CurrentVariance[cell] = lastPass[1].variance[cell]
      ELSE /\ lastPass[1].score[cell] = 0
           /\ CurrentMean[cell][1] = lastPass[1].mean[cell][1]

\* the tick of the scenario has run on a frame with a brightened pixel and an
\* unchanged one, over a scene that is not black
C12_Witness ==
  /\ StepScenario
  /\ \E cell \in DOMAIN lastPass[1].frame :
       /\ Luminance(lastPass[1].frame[cell]) - lastPass[1].mean[cell][1] = Px(200)
       /\ lastPass[1].mean[cell][1] > 0
  /\ \E cell \in DOMAIN lastPass[1].frame :
       /\ Luminance(lastPass[1].frame[cell]) = lastPass[1].mean[cell][1]
       /\ lastPass[1].mean[cell][1] > 0

---------------------------------------------------------------------------
(* SpecPair: the detector on two pixels side by side, over every short run *)
(* of frames: the two pixels of a pass share the controls and differ by    *)
(* their frame values and by the model their histories have built.         *)

PairPalette == DetectPalette \ {<<Px(255), Px(255), Px(255)>>}

InitPair ==
  /\ engine \in {"gpu", "cpu"}
  /\ controls \in DetectControls
  /\ pWidth = 2
  /\ pHeight = 1
  /\ frame \in Frames(2, 1, PairPalette)
  /\ isInitialized = FALSE
  /\ pingPongIndex = 0
  /\ programs = <<>>
  /\ buffers = <<>>
  /\ textures = <<>>
  /\ backgroundModelData = <<>>
  /\ motionData = <<>>
  /\ outputAlpha = <<>>
  /\ outputBuffer = BlankCanvas(pWidth, pHeight)
  /\ previousOutput = <<>>
  /\ ticks = 0
  /\ passLog = <<>>
  /\ lastPass = <<>>
  /\ sinceReset = 0
  /\ firstFrame = <<>>
  /\ Mounted
  /\ modelTag = <<>>

\* the video advances to another frame
NewFrameP ==
  /\ frame' \in Frames(pWidth, pHeight, PairPalette) \ {frame}
  /\ UNCHANGED <<engine, controls, pWidth, pHeight, isInitialized, pingPongIndex,
                 programs, buffers, textures, backgroundModelData, motionData, outputAlpha, outputBuffer, passLog,
                 previousOutput, ticks,
                 lastPass, sinceReset, firstFrame, appVars>>

NextPair == NewFrameP \/ GpuInitD \/ GpuRenderD \/ CpuDrawD \/ CpuResetD

SpecPair == InitPair /\ [][NextPair]_vars

\* dist of a pixel of the last pass, from the frame and the mean the pass read
PassDist(cell) ==
  LET current == lastPass[1].frame[cell]
      mean == lastPass[1].mean[cell]
  IN IF controls.detectionMode = "color" THEN Sqrt(SqDist(current, mean))
     ELSE Abs(Luminance(current) - mean[1])

\* edge = threshold * sqrt(max(variance, minVariance)) of a pixel of the last
\* pass, from the variance the pass read; threshold is detectionThreshold / 10
\* on the gpu, detectionThreshold on the cpu
PassEdge(cell) ==
  LET variance == lastPass[1].variance[cell]
  IN IF engine = "gpu"
     THEN (controls.detectionThreshold * Sqrt(Max(variance, (FP * FP) \div 20))) \div 100
     ELSE (controls.detectionThreshold * Sqrt(Max(variance, 25 * SubLevels * SubLevels)))
            \div 10

---------------------------------------------------------------------------
(* SpecTrail: the persistence effects.  Two pixels on a black background:  *)
(* something white passes, then the scene is black again and ticks follow  *)
(* without motion.                                                         *)

TrailPalette == {<<Px(0), Px(0), Px(0)>>, <<Px(255), Px(255), Px(255)>>}

\* electricTrails on both engines, heatmap on the gpu (the cpu has no such
\* option), two values of the persistence slider, morphology off or 'open'
TrailControls ==
  [detectionMode : {"color"}, detectionThreshold : {150}, processingResolution : {100},
   adaptationRate : {50}, morphology : {"none", "open"},
   effect : IF engine = "gpu" THEN {"electricTrails", "heatmap"} ELSE {"electricTrails"},
   invert : {FALSE}, persistence : {50, 85}]

InitTrail ==
  /\ engine \in {"gpu", "cpu"}
  /\ controls \in TrailControls
  /\ pWidth = 2
  /\ pHeight = 1
  /\ frame = Background(pWidth, pHeight)
  /\ isInitialized = FALSE
  /\ pingPongIndex = 0
  /\ programs = <<>>
  /\ buffers = <<>>
  /\ textures = <<>>
  /\ backgroundModelData = <<>>
  /\ motionData = <<>>
  /\ outputAlpha = <<>>
  /\ outputBuffer = BlankCanvas(pWidth, pHeight)
  /\ previousOutput = <<>>
  /\ ticks = 0
  /\ passLog = <<>>
  /\ lastPass = <<>>
  /\ sinceReset = 0
  /\ firstFrame = <<>>
  /\ Mounted
  /\ modelTag = <<>>

\* the video advances to another frame
NewFrameT ==
  /\ frame' \in Frames(pWidth, pHeight, TrailPalette) \ {frame}
  /\ UNCHANGED <<engine, controls, pWidth, pHeight, isInitialized, pingPongIndex,
                 programs, buffers, textures, backgroundModelData, motionData, outputAlpha, outputBuffer, passLog,
                 previousOutput, ticks, lastPass, sinceReset, firstFrame, appVars>>

NextTrail == NewFrameT \/ GpuInitM \/ GpuRenderD \/ CpuDrawD

SpecTrail == InitTrail /\ [][NextTrail]_vars

\* the last tick ran the detector and found no motion: its mask is 0 everywhere
StillTick ==
  /\ lastPass # <<>>
  /\ previousOutput # <<>>
  /\ \A cell \in DOMAIN lastPass[1].score : lastPass[1].score[cell] = 0

\* C14: with electricTrails or heatmap, a tick whose mask is 0 everywhere leaves
\* in every pixel of the output buffer the colour it held before the tick
\* times 1 - fade = persistence, so that k such ticks leave (1 - fade)^k of it
C14_PersistenceDecay ==
  (StillTick /\ controls.effect \in {"electricTrails", "heatmap"}) =>
    \A cell \in DOMAIN outputBuffer : \A i \in 1 .. 3 :
      outputBuffer[cell][i] = MulDiv(previousOutput[1][cell][i], controls.persistence, 100)

\* a tick without motion has run on an output buffer that held colour
C14_Witness ==
  /\ StillTick
  /\ controls.effect \in {"electricTrails", "heatmap"}
  /\ \E cell \in DOMAIN outputBuffer : \E i \in 1 .. 3 : previousOutput[1][cell][i] > 0

---------------------------------------------------------------------------
(* The ping-pong buffers of MotionEngine, over the ticks of SpecMorph *)

\* a step that is a render which passed the isInitialized guard
RenderStep == engine = "gpu" /\ isInitialized /\ ticks' # ticks

\* C19: pingPongIndex is 0 or 1; a render that passes the isInitialized guard
\* reads the buffer set idx = pingPongIndex, writes only the set 1 - idx, mean,
\* variance and mask alike, and ends with pingPongIndex = 1 - idx
C19_PingPongIndex ==
  [][RenderStep =>
       /\ pingPongIndex \in {0, 1}
       /\ lastPass'[1].mean = textures.mean[pingPongIndex]
       /\ lastPass'[1].variance = textures.variance[pingPongIndex]
       /\ textures'.mean[pingPongIndex] = textures.mean[pingPongIndex]
       /\ textures'.variance[pingPongIndex] = textures.variance[pingPongIndex]
       /\ textures'.mask[pingPongIndex] = textures.mask[pingPongIndex]
       /\ pingPongIndex' = 1 - pingPongIndex]_vars

\* C19, amended: as above, but of the set idx only mean and variance are left
\* alone: with morphology open or close mask[idx] is the target of the first
\* morphology pass, and the mask of the tick, the one the output pass
\* samples, ends in mask[1 - idx]
C19_PingPongIndexModel ==
  [][RenderStep =>
       /\ pingPongIndex \in {0, 1}
       /\ lastPass'[1].mean = textures.mean[pingPongIndex]
       /\ lastPass'[1].variance = textures.variance[pingPongIndex]
       /\ textures'.mean[pingPongIndex] = textures.mean[pingPongIndex]
       /\ textures'.variance[pingPongIndex] = textures.variance[pingPongIndex]
       /\ controls.morphology = "none" =>
            textures'.mask[pingPongIndex] = textures.mask[pingPongIndex]
       /\ outputAlpha' = GpuOutputAlpha(textures'.mask[1 - pingPongIndex], controls)
       /\ pingPongIndex' = 1 - pingPongIndex]_vars

\* the first render after init has run with morphology open or close, and
\* mask[idx], all zero before it, holds what the first morphology pass wrote
C19_Witness ==
  /\ engine = "gpu"
  /\ ticks = 1
  /\ pingPongIndex = 1
  /\ controls.morphology \in {"open", "close"}
  /\ \E cell \in DOMAIN textures.mask[0] : textures.mask[0][cell] # 0

---------------------------------------------------------------------------
(* The model from one tick to the next, over the runs of SpecDetect *)

\* a step that is a detector pass following another one with no init, resize
\* or reset of the model in between
ConsecutiveTicks == lastPass # <<>> /\ lastPass' # <<>> /\ ticks' # ticks

\* C20: with no init, resize or reset between two consecutive completed
\* ticks, the detector of the later one reads exactly the mean and variance
\* the detector of the earlier one wrote: the morphology and compositing
\* passes in between modify neither
C20_ModelCarried ==
  [][ConsecutiveTicks =>
       /\ lastPass'[1].mean = lastPass[1].wroteMean
       /\ lastPass'[1].variance = lastPass[1].wroteVariance]_vars

\* the second of two consecutive ticks of the gpu has run, reading a mean and
\* a variance that the first one had changed
C20_Witness ==
  /\ engine = "gpu"
  /\ sinceReset = 2
  /\ lastPass # <<>>
  /\ controls.morphology # "none"
  /\ \E cell \in DOMAIN lastPass[1].mean :
       /\ lastPass[1].mean[cell] # <<0, 0, 0>>
       /\ lastPass[1].variance[cell] # 0

---------------------------------------------------------------------------
(* The order of the passes of a tick, over the ticks of SpecMorph *)

\* the pass reads or writes the canvas that holds the output of the last tick
TouchesOutput(p) == Buf("canvas") \in p.reads \cup p.writes

\* C21: in every tick the detector pass comes before the morphology
\* sub-passes, these one after the other, and the compositor last: no step
\* that reads or modifies the output of the previous tick comes before the
\* detector or a morphology sub-pass, and only the last step of the tick
\* touches that output
C21_PassOrdering ==
  passLog # <<>> =>
    \A i, j \in 1 .. Len(passLog) :
      /\ (passLog[i].pass = "detector" /\ passLog[j].pass \in {"erode", "dilate"})
           => i < j
      /\ (passLog[i].pass \in {"detector", "create", "erode", "dilate"}
            /\ TouchesOutput(passLog[j])) => i < j
      /\ TouchesOutput(passLog[i]) => i = Len(passLog)

\* a tick of the cpu with both morphology sub-passes has run
C21_Witness ==
  /\ engine = "cpu"
  /\ passLog # <<>>
  /\ lastPass # <<>>
  /\ \E i, j \in 1 .. Len(passLog) :
       i < j /\ passLog[i].pass = "erode" /\ passLog[j].pass = "dilate"

\* the steps of the morphology in the last tick
MorphologyLog ==
  SelectSeq(passLog, LAMBDA p : p.pass \in {"copy", "erode", "dilate"})

\* the erode and dilate sub-passes among them
SubPasses == SelectSeq(passLog, LAMBDA p : p.pass \in {"erode", "dilate"})

\* the buffer the morphology gets the detector mask in and leaves its result
\* in: gpu, mask[nextIdx], which the swap has made mask[pingPongIndex]; cpu, data
MaskBuffer == IF engine = "gpu" THEN <<"mask", pingPongIndex>> ELSE Buf("data")

\* the buffers of the morphology after the steps of log have run one after
\* the other, each reading its input whole and then writing its output,
\* from the detector mask m in MaskBuffer and zero everywhere else
MaskAfter(log, m) ==
  LET names == {MaskBuffer} \cup UNION {p.reads \cup p.writes : p \in {log[i] : i \in DOMAIN log}}
      blank == [cell \in DOMAIN m |-> IF engine = "gpu" THEN 0 ELSE <<0, 0, 0, 0>>]
      in(p) == CHOOSE b \in p.reads : TRUE
      out(p) == CHOOSE b \in p.writes : TRUE
      step(bufs, p) ==
        [bufs EXCEPT ![out(p)] = IF p.pass = "erode" THEN Erode(bufs[in(p)])
                                 ELSE IF p.pass = "dilate" THEN Dilate(bufs[in(p)])
                                 ELSE bufs[in(p)]]
      run[i \in 0 .. Len(log)] ==
        IF i = 0 THEN [b \in names |-> IF b = MaskBuffer THEN m ELSE blank]
        ELSE step(run[i - 1], log[i])
  IN run[Len(log)][MaskBuffer]

\* C22: no erode or dilate sub-pass reads the buffer it writes, the second
\* sub-pass of open and close reads exactly the buffer the first one wrote,
\* and the mask the compositor consumes is what these sub-passes leave when
\* each reads a buffer that is not written meanwhile
C22_NoInPlaceMorphology ==
  lastPass # <<>> =>
    /\ \A i \in 1 .. Len(SubPasses) : SubPasses[i].reads \cap SubPasses[i].writes = {}
    /\ Len(SubPasses) \in {0, 2}
    /\ Len(SubPasses) = 2 => SubPasses[2].reads = SubPasses[1].writes
    /\ Len(SubPasses) = 0 <=> controls.morphology = "none"
    /\ \A m \in {DetectorMask} : ConsumedMask = MaskAfter(MorphologyLog, m)

\* a render from index 1 back to index 0 has opened a detector mask that
\* opening changes
C22_Witness ==
  /\ engine = "gpu"
  /\ lastPass # <<>>
  /\ pingPongIndex = 0
  /\ controls.morphology = "open"
  /\ Len(SubPasses) = 2
  /\ ConsumedMask # DetectorMask

---------------------------------------------------------------------------
(* The variance update, over the runs of SpecDetect *)

\* the difference between the luma of the current pixel and the luma of the
\* mean the last pass read, i.e. the mean before the update of that pass
PreUpdateDelta(cell) ==
  LET current == lastPass[1].frame[cell]
      mean == lastPass[1].mean[cell]
  IN IF engine = "gpu"
     THEN IF controls.detectionMode = "color" THEN Dot333(current) - Dot333(mean)
          ELSE Luma(current) - mean[1]
     ELSE IF controls.detectionMode = "color"
          THEN Brightness(current) - Brightness(mean)
          ELSE Brightness(current) - mean[1]

\* the weight of the update of the last pass: gpu, adaptationRate * (1 - soft);
\* cpu, adaptationRate on a background pixel and none on a foreground one
UpdateWeight(cell) ==
  IF engine = "gpu" THEN controls.adaptationRate * (One - lastPass[1].score[cell])
  ELSE IF lastPass[1].score[cell] = One THEN 0
  ELSE controls.adaptationRate * One

\* C23: in colour and in luminance mode the variance a pass writes is
\* mix(variance, d * d, w), d being the difference between the luma of the
\* current pixel and the luma of the mean as it was before the pass updated it
C23_VarianceUsesPreUpdateMean ==
  lastPass # <<>> =>
    \A cell \in DOMAIN lastPass[1].frame :
      lastPass[1].wroteVariance[cell] =
        Mix(lastPass[1].variance[cell], PreUpdateDelta(cell) * PreUpdateDelta(cell),
            UpdateWeight(cell))

\* a pass in luminance mode has moved the mean of a pixel
C23_Witness ==
  /\ lastPass # <<>>
  /\ controls.detectionMode = "luminance"
  /\ \E cell \in DOMAIN lastPass[1].frame :
       /\ UpdateWeight(cell) > 0
       /\ lastPass[1].wroteMean[cell] # lastPass[1].mean[cell]

---------------------------------------------------------------------------
(* Invert in the output pass of the gpu, over the ticks of SpecMorph *)

\* 1 - mask, texel by texel
InvertedMask(mask) == [cell \in DOMAIN mask |-> One - mask[cell]]

\* C24: with invert set every mask value the style logic of the compositor
\* uses, the centre value and the neighbours sampled for the edge glow alike,
\* is 1 minus the cleaned mask value: the output is the one the same styles
\* give, without invert, on the mask 1 - mask
C24_InvertPrecedesStyle ==
  (engine = "gpu" /\ lastPass # <<>> /\ controls.invert) =>
    outputBuffer =
      GpuFinalPass(previousOutput[1], lastPass[1].frame,
                   InvertedMask(textures.mask[pingPongIndex]),
                   [controls EXCEPT !.invert = FALSE], pWidth, pHeight)

\* a render with invert set and an effect that has an edge glow has run
C24_Witness ==
  /\ engine = "gpu"
  /\ lastPass # <<>>
  /\ controls.invert
  /\ controls.effect \in {"colorBurn", "electricTrails"}

---------------------------------------------------------------------------
(* The start of compositing: clear or fade of the previous output *)

\* the output buffer at the start of compositing: cleared to opaque black, or,
\* for the two effects with persistence, kept under a black layer of alpha
\* 1 - persistence
StartOfCompositing(canvas, c) ==
  IF c.effect \in {"electricTrails", "heatmap"}
  THEN fillRect(canvas, c.persistence)
  ELSE glClear(canvas, <<0, 0, 0, FP>>)

\* the tick's drawing over a canvas: the blended or opaque quad of render, the
\* drawImage of the motion frame in draw
Composited(canvas, c) ==
  IF engine = "gpu"
  THEN glDraw(canvas,
              outputFragments(lastPass[1].frame, textures.mask[pingPongIndex], c,
                              pWidth, pHeight),
              c.effect \in {"electricTrails", "heatmap"})
  ELSE drawImage(canvas, motionData)

\* C25: a tick composites onto an output buffer cleared to opaque black, with
\* nothing left of the previous tick's output, for every effect but
\* electricTrails and heatmap; for these two it composites onto the previous
\* output under a black layer of alpha 1 - persistence
C25_ClearVersusFade ==
  (lastPass # <<>> /\ previousOutput # <<>>) =>
    outputBuffer = Buffer(Composited(StartOfCompositing(previousOutput[1], controls), controls))

\* a tick has composited over an output buffer that held colour
C25_Witness ==
  /\ lastPass # <<>>
  /\ previousOutput # <<>>
  /\ \E cell \in DOMAIN previousOutput[1] : \E i \in 1 .. 3 : previousOutput[1][cell][i] > 0

---------------------------------------------------------------------------
(* The render loop of App, over SpecApp *)

\* C26: at every moment at most one draw callback is pending in
\* requestAnimationFrame, whatever the order of ticks, control changes,
\* dimension changes and source changes
C26_SingleRenderLoop == Len(animationFrame) <= 1

\* ticks have run, and the loop effect has since replaced the pending callback
\* by the draw of a render with other controls and other dimensions
C26_Witness ==
  /\ lastDetect # <<>>
  /\ Len(animationFrame) = 1
  /\ animationFrame[1].current
  /\ animationFrame[1].controls # DefaultControls
  /\ animationFrame[1].dimensions # DefaultDimensions

---------------------------------------------------------------------------
(* SpecEngine: a MotionEngine just constructed, under every order of init, *)
(* resize and render calls.  The caller gives the engine the size of the   *)
(* canvas and of the frames, as App does with dimensions.                  *)

EngineSizes == {<<1, 1>>, <<2, 1>>}

EngineControls ==
  [detectionMode : {"color"}, detectionThreshold : {150}, processingResolution : {100},
   adaptationRate : {50}, morphology : {"none", "open"}, effect : {"classic"},
   invert : {FALSE}, persistence : {85}]

InitEngine ==
  /\ engine = "gpu"
  /\ controls \in EngineControls
  /\ pWidth = 0
  /\ pHeight = 0
  /\ isInitialized = FALSE
  /\ pingPongIndex = 0
  /\ programs = <<>>
  /\ buffers = <<>>
  /\ textures = <<>>
  /\ backgroundModelData = <<>>
  /\ motionData = <<>>
  /\ outputAlpha = <<>>
  /\ dimensions = <<1, 1>>
  /\ frame = Background(1, 1)
  /\ outputBuffer = BlankCanvas(1, 1)
  /\ previousOutput = <<>>
  /\ ticks = 0
  /\ passLog = <<>>
  /\ lastPass = <<>>
  /\ sinceReset = 0
  /\ firstFrame = <<>>
  /\ sourceUrl = 0
  /\ isWebcam = FALSE
  /\ video = NoVideo
  /\ getUserMedia = FALSE
  /\ pendingEffects = {}
  /\ animationFrame = <<>>
  /\ modelTag = <<>>
  /\ lastDetect = <<>>
  /\ canvasTag = "blank"
  /\ observed = <<>>
  /\ nextSource = 1

engineAppVars == <<sourceUrl, isWebcam, video, getUserMedia, pendingEffects,
                   animationFrame, modelTag, lastDetect, canvasTag, observed, nextSource>>

\* the video advances to another frame
NewFrameE ==
  /\ frame' \in Frames(dimensions[1], dimensions[2], TrailPalette) \ {frame}
  /\ UNCHANGED <<engine, controls, pWidth, pHeight, isInitialized, pingPongIndex,
                 programs, buffers, textures, backgroundModelData, motionData,
                 outputAlpha, outputBuffer, previousOutput, ticks, passLog, lastPass,
                 sinceReset, firstFrame, dimensions, engineAppVars>>

\* engine.init(dimensions.width, dimensions.height)
InitE == EngineInit(dimensions[1], dimensions[2]) /\ UNCHANGED <<dimensions, engineAppVars>>

\* engine.resize(width, height), with the canvas and the frames at that size: a
\* canvas whose size changes is cleared
ResizeE ==
  \E d \in EngineSizes :
    /\ dimensions' = d
    /\ frame' = IF d = dimensions THEN frame ELSE Background(d[1], d[2])
    /\ outputBuffer' = IF d = dimensions THEN outputBuffer ELSE BlankCanvas(d[1], d[2])
    /\ previousOutput' = IF d = dimensions THEN previousOutput ELSE <<>>
    /\ EngineResize(d[1], d[2])
    /\ UNCHANGED engineAppVars

\* engine.render(video, controls)
RenderE == ticks < MaxTicks /\ EngineRender /\ UNCHANGED <<dimensions, engineAppVars>>

NextEngine == NewFrameE \/ InitE \/ ResizeE \/ RenderE

SpecEngine == InitEngine /\ [][NextEngine]_vars

\* C27: render executes its passes only when programs, quad buffer, textures and
\* framebuffers are all non-null; while the engine has not been initialised,
\* after a resize too, a render changes neither pingPongIndex nor any buffer
C27_RenderGuard ==
  [][/\ ticks' # ticks => (programs # <<>> /\ buffers # <<>> /\ textures # <<>>)
     /\ (~isInitialized /\ ~isInitialized' /\ pWidth' = pWidth /\ pHeight' = pHeight)
          => UNCHANGED <<pingPongIndex, textures, outputBuffer, ticks>>]_vars

\* render has executed its passes on an engine that was resized and initialised
C27_Witness ==
  /\ engine = "gpu"
  /\ lastPass # <<>>
  /\ pWidth = 2
  /\ isInitialized

---------------------------------------------------------------------------
(* The motion frame of draw (cpu) after applyMorphology, over SpecMorph *)

\* the two colours draw assigns under the controls: foreground and background
Palette(c) == {CpuColour(TRUE, c), CpuColour(FALSE, c)}

\* C28: after applyMorphology (open or close) every pixel of the motion frame
\* has the foreground RGBA or the background RGBA that the effect and the
\* invert setting assign
C28_MorphologyKeepsPalette ==
  (engine = "cpu" /\ lastPass # <<>> /\ controls.morphology # "none") =>
    \A cell \in DOMAIN motionData : motionData[cell] \in Palette(controls)

\* applyMorphology has run on a frame of colorBurn or electricTrails and left
\* pixels of both kinds
C28_Witness ==
  /\ engine = "cpu"
  /\ lastPass # <<>>
  /\ controls.morphology # "none"
  /\ controls.effect \in {"colorBurn", "electricTrails"}
  /\ \E a, b \in DOMAIN motionData : motionData[a][1] > motionData[b][1]

---------------------------------------------------------------------------
(* The liveness of the render loop, over SpecApp *)

\* C29: every invocation of draw schedules a next draw: after a frame has come,
\* whether the tick was skipped or render threw, a draw callback is pending
C29_LoopLiveness == [][draw => animationFrame' # <<>>]_vars

\* a tick has drawn its result and the next draw is pending
C29_Witness ==
  /\ lastDetect # <<>>
  /\ canvasTag = "result"
  /\ animationFrame # <<>>
  /\ animationFrame[1].current

====
